---------------------------- MODULE Spec2Model ----------------------------
(***************************************************************************)
(* The RBAC authorization engine of Agento (docs/RBAC.md): the relational  *)
(* entity store, the permission checker (RBACManager), the permission      *)
(* gate (require_permission), role and permission administration, the      *)
(* catalog seeding script, and the audit recorder.                         *)
(*                                                                         *)
(* A table is a bag of rows: the surrogate key `id UUID DEFAULT            *)
(* gen_random_uuid()` of a row is not represented, so two rows that agree  *)
(* on every other column are two copies of one element of the bag.  The    *)
(* users table is a function of its primary key.  A permission is referred *)
(* to by its `name` (UNIQUE NOT NULL), a role by an explicit id.           *)
(***************************************************************************)
EXTENDS Integers, Sequences, FiniteSets, Bags, TLC

VARIABLES
    users,             \* users table: id -> [organization_id, is_active]
    roles,             \* roles table
    permissions,       \* permissions table
    user_roles,        \* user_roles table (UserRoleGrant)
    role_permissions,  \* role_permissions table (RolePermissionLink)
    now,               \* the store's clock, NOW()
    nops,              \* number of administration calls made so far
    resp,              \* what the last permission-gate call gave its caller
    auditQueue,        \* audit recorder: records queued, not yet flushed
    audit_logs,        \* audit_logs table
    pending,           \* audit recorder: the record each producer is handing over
    submitted,         \* every audit record a producer has handed to the recorder
    attempts,          \* audit recorder: failed flushes of the head record
    calls,             \* the read call each client has in progress
    barred,            \* (user, permission) pairs a returned revocation took away
    homeUpload,        \* HomeUpload.jsx: the component's state and its timers
    orgManager         \* OrgManager.jsx: the component's state and its requests

vars == <<users, roles, permissions, user_roles, role_permissions, now, nops,
          resp, auditQueue, audit_logs, pending, submitted, attempts,
          calls, barred, homeUpload, orgManager>>

storeVars == <<users, roles, permissions, user_roles, role_permissions>>
auditVars == <<auditQueue, audit_logs, pending, submitted, attempts>>
callVars == <<calls, barred>>
uiVars == <<homeUpload, orgManager>>

-----------------------------------------------------------------------------
(* Bounds of the model *)

MaxTime == 2
MaxOps == 3

(* SQL NULL of a text or uuid column, and of the expires_at timestamp *)
NULL == "NULL"
NoExpiry == -1

UserIds == {"u1", "u2"}
OrgIds == {"o1", "o2"}
OrgArgs == OrgIds \cup {NULL}
Times == 0..MaxTime
(* expires_at arguments: none, or the instant 1, which is in the future at
   time 0, the present at time 1 and the past from time 2 on *)
Expiries == {NoExpiry, 1}

-----------------------------------------------------------------------------
(* Tables *)

Rows(tbl) == BagToSet(tbl)

InsertRow(tbl, row) == tbl (+) SetToBag({row})

RECURSIVE SumCopies(_, _)
SumCopies(tbl, S) ==
    IF S = {} THEN 0
    ELSE LET r == CHOOSE x \in S : TRUE
         IN  CopiesIn(r, tbl) + SumCopies(tbl, S \ {r})

(* roles: UNIQUE(name, organization_id).  In SQL two NULLs are distinct, so the
   constraint compares only rows whose organization_id is not NULL. *)
RoleRow(id, name, org, sys) ==
    [id |-> id, name |-> name, organization_id |-> org, is_system_role |-> sys]

(* CONSTRAINT unique_role_per_org UNIQUE(name, organization_id): a row
   conflicts with a row of the same name and the same organization_id that is
   not NULL; a NULL organization_id equals none, not even another NULL *)
role_conflict(tbl, row) ==
    \E e \in Rows(tbl) :
        /\ e.name = row.name
        /\ e.organization_id # NULL
        /\ row.organization_id # NULL
        /\ e.organization_id = row.organization_id

(* permissions: name UNIQUE, UNIQUE(resource, action) *)
PermissionRow(name, resource, action) ==
    [name |-> name, resource |-> resource, action |-> action]

(* A permissions table that lost CONSTRAINT unique_resource_action *)
permission_conflict_name_only(tbl, row) ==
    \E e \in Rows(tbl) : e.name = row.name

permission_conflict(tbl, row) ==
    \E e \in Rows(tbl) :
        \/ e.name = row.name
        \/ (e.resource = row.resource /\ e.action = row.action)

(* user_roles: UNIQUE(user_id, role_id); is_active DEFAULT true;
   assigned_at DEFAULT NOW() *)
UserRoleRow(user_id, role_id, assigned_by, assigned_at, expires_at, is_active) ==
    [user_id |-> user_id, role_id |-> role_id, assigned_by |-> assigned_by,
     assigned_at |-> assigned_at, expires_at |-> expires_at,
     is_active |-> is_active]

user_role_conflict(tbl, row) ==
    \E e \in Rows(tbl) : e.user_id = row.user_id /\ e.role_id = row.role_id

(* role_permissions: UNIQUE(role_id, permission_id) *)
RolePermissionRow(role_id, permission_id) ==
    [role_id |-> role_id, permission_id |-> permission_id]

(* A role_permissions table whose unique constraint was left out *)
role_permission_conflict_unchecked(tbl, row) == FALSE

role_permission_conflict(tbl, row) ==
    \E e \in Rows(tbl) :
        e.role_id = row.role_id /\ e.permission_id = row.permission_id

(* The store as the session sees it (self.db) *)
DB ==
    [users |-> users, roles |-> roles, permissions |-> permissions,
     user_roles |-> user_roles, role_permissions |-> role_permissions]

RoleIdsOf(db) == {r.id : r \in Rows(db.roles)}
PermIdsOf(db) == {p.name : p \in Rows(db.permissions)}

-----------------------------------------------------------------------------
(* RBACManager: the permission checker *)

(* Variants of grant_effective with one condition of the WHERE clause lost *)
grant_effective_without_null_expiry(ur, t) ==
    /\ ur.is_active
    /\ ur.expires_at > t

grant_effective_without_expiry(ur, t) == ur.is_active

grant_effective_without_is_active(ur, t) ==
    ur.expires_at = NoExpiry \/ ur.expires_at > t

(* A variant of grant_effective that takes a grant expiring now as effective *)
grant_effective_until_expiry_instant(ur, t) ==
    /\ ur.is_active
    /\ (ur.expires_at = NoExpiry \/ ur.expires_at >= t)

(* ur.is_active = true AND (ur.expires_at IS NULL OR ur.expires_at > NOW()) *)
grant_effective(ur, t) ==
    /\ ur.is_active
    /\ (ur.expires_at = NoExpiry \/ ur.expires_at > t)

(* A variant of org_scope_ok without the system-role override *)
org_scope_ok_without_system_role(db, user_id, r, organization_id) ==
    \/ organization_id = NULL
    \/ (db.users[user_id].organization_id # NULL
          /\ db.users[user_id].organization_id = organization_id)

(* A variant of org_scope_ok in which the user's own organization does not
   count *)
org_scope_ok_without_user_org(db, user_id, r, organization_id) ==
    \/ organization_id = NULL
    \/ r.is_system_role

(* A variant of org_scope_ok without ":org_id IS NULL OR": a NULL :org_id
   matches no organization *)
org_scope_ok_null_matches_nothing(db, user_id, r, organization_id) ==
    \/ (organization_id # NULL
          /\ db.users[user_id].organization_id = organization_id)
    \/ r.is_system_role

(* (:org_id IS NULL OR u.organization_id = :org_id OR r.is_system_role = true);
   a NULL u.organization_id equals no :org_id *)
org_scope_ok(db, user_id, r, organization_id) ==
    \/ organization_id = NULL
    \/ (db.users[user_id].organization_id # NULL
          /\ db.users[user_id].organization_id = organization_id)
    \/ r.is_system_role

(* A variant of check_permission whose query lost u.is_active = true *)
check_permission_without_user_is_active(db, user_id, resource, action, organization_id, t) ==
    /\ user_id \in DOMAIN db.users
    /\ \E ur \in Rows(db.user_roles) :
         /\ ur.user_id = user_id
         /\ grant_effective(ur, t)
         /\ \E r \in Rows(db.roles) :
              /\ r.id = ur.role_id
              /\ org_scope_ok(db, user_id, r, organization_id)
              /\ \E rp \in Rows(db.role_permissions) :
                   /\ rp.role_id = r.id
                   /\ \E p \in Rows(db.permissions) :
                        /\ p.name = rp.permission_id
                        /\ p.resource = resource
                        /\ p.action = action

(* SELECT COUNT( * ) ... > 0 over users JOIN user_roles JOIN roles
   JOIN role_permissions JOIN permissions *)
check_permission(db, user_id, resource, action, organization_id, t) ==
    /\ user_id \in DOMAIN db.users
    /\ db.users[user_id].is_active
    /\ \E ur \in Rows(db.user_roles) :
         /\ ur.user_id = user_id
         /\ grant_effective(ur, t)
         /\ \E r \in Rows(db.roles) :
              /\ r.id = ur.role_id
              /\ org_scope_ok(db, user_id, r, organization_id)
              /\ \E rp \in Rows(db.role_permissions) :
                   /\ rp.role_id = r.id
                   /\ \E p \in Rows(db.permissions) :
                        /\ p.name = rp.permission_id
                        /\ p.resource = resource
                        /\ p.action = action

(* A variant of get_user_permissions whose query lost u.is_active = true *)
get_user_permissions_without_user_is_active(db, user_id, t) ==
    IF user_id \notin DOMAIN db.users THEN {}
    ELSE {p \in Rows(db.permissions) :
            \E rp \in Rows(db.role_permissions) :
              /\ rp.permission_id = p.name
              /\ \E ur \in Rows(db.user_roles) :
                   /\ ur.role_id = rp.role_id
                   /\ ur.user_id = user_id
                   /\ grant_effective(ur, t)}

(* SELECT DISTINCT p.resource, p.action, p.name ... : the effective permissions *)
get_user_permissions(db, user_id, t) ==
    IF user_id \notin DOMAIN db.users \/ ~db.users[user_id].is_active THEN {}
    ELSE {p \in Rows(db.permissions) :
            \E rp \in Rows(db.role_permissions) :
              /\ rp.permission_id = p.name
              /\ \E r \in Rows(db.roles) :
                   /\ r.id = rp.role_id
                   /\ \E ur \in Rows(db.user_roles) :
                        /\ ur.role_id = r.id
                        /\ ur.user_id = user_id
                        /\ grant_effective(ur, t)}

(* try: db.add(UserRole(...)); db.commit(); return True
   except: db.rollback(); return False *)
assign_role(db, user_id, role_id, assigned_by, expires_at, t, up) ==
    LET row == UserRoleRow(user_id, role_id, assigned_by, t, expires_at, TRUE)
        raises ==
            \/ ~up
            \/ user_id \notin DOMAIN db.users
            \/ assigned_by \notin DOMAIN db.users
            \/ role_id \notin RoleIdsOf(db)
            \/ user_role_conflict(db.user_roles, row)
    IN  IF raises THEN [ok |-> FALSE, user_roles |-> db.user_roles]
        ELSE [ok |-> TRUE, user_roles |-> InsertRow(db.user_roles, row)]

(* Where the store can fail a session that writes: on a statement, on COMMIT
   before the store applies it, or once the store has applied COMMIT and
   before its acknowledgement reaches the session *)
StoreFaults == {"statement", "commit", "acknowledgement"}

(* assign_role when the store fails: db.commit() raises, the except branch
   calls db.rollback() and returns False.  The rollback discards the row
   unless the store had applied COMMIT already. *)
assign_role_failing(db, user_id, role_id, assigned_by, expires_at, t, fault) ==
    [ok |-> FALSE,
     user_roles |->
        IF fault = "acknowledgement"
        THEN assign_role(db, user_id, role_id, assigned_by, expires_at, t,
                         TRUE).user_roles
        ELSE assign_role(db, user_id, role_id, assigned_by, expires_at, t,
                         FALSE).user_roles]

-----------------------------------------------------------------------------
(* Role/Permission administration that RBAC.md names but does not list *)

(* revokeRole: UPDATE user_roles SET is_active = false
   WHERE user_id = :user_id AND role_id = :role_id; idempotent *)
revoked_row(x, user_id, role_id) ==
    IF x.user_id = user_id /\ x.role_id = role_id
    THEN [x EXCEPT !.is_active = FALSE]
    ELSE x

(* A variant of revokeRole that deletes the grant row *)
revokeRole_deleting(db, user_id, role_id, up) ==
    IF ~up THEN [ok |-> FALSE, user_roles |-> db.user_roles]
    ELSE LET tbl == db.user_roles
             kept == {x \in Rows(tbl) :
                        ~(x.user_id = user_id /\ x.role_id = role_id)}
         IN  [ok |-> TRUE, user_roles |-> [x \in kept |-> tbl[x]]]

(* A variant of revokeRole that reports success without committing the
   update *)
revokeRole_not_committing(db, user_id, role_id, up) ==
    [ok |-> up, user_roles |-> db.user_roles]

revokeRole(db, user_id, role_id, up) ==
    IF ~up THEN [ok |-> FALSE, user_roles |-> db.user_roles]
    ELSE LET tbl == db.user_roles
             img == {revoked_row(x, user_id, role_id) : x \in Rows(tbl)}
         IN  [ok |-> TRUE,
              user_roles |->
                [s \in img |->
                   SumCopies(tbl, {x \in Rows(tbl) :
                                     revoked_row(x, user_id, role_id) = s})]]

(* attachPermission: attaching an already-attached permission is a no-op
   success *)
attachPermission(db, role_id, permission_id, up) ==
    LET row == RolePermissionRow(role_id, permission_id)
    IN  IF \/ ~up
           \/ role_id \notin RoleIdsOf(db)
           \/ permission_id \notin PermIdsOf(db)
        THEN [ok |-> FALSE, role_permissions |-> db.role_permissions]
        ELSE IF role_permission_conflict(db.role_permissions, row)
        THEN [ok |-> TRUE, role_permissions |-> db.role_permissions]
        ELSE [ok |-> TRUE,
              role_permissions |-> InsertRow(db.role_permissions, row)]

(* detachPermission: DELETE FROM role_permissions WHERE role_id = :role_id AND
   permission_id = :permission_id; detaching a non-attached one is a no-op
   success *)
detachPermission(db, role_id, permission_id, up) ==
    IF ~up THEN [ok |-> FALSE, role_permissions |-> db.role_permissions]
    ELSE LET tbl == db.role_permissions
             keep == {x \in Rows(tbl) :
                        ~(x.role_id = role_id /\ x.permission_id = permission_id)}
         IN  [ok |-> TRUE, role_permissions |-> [x \in keep |-> CopiesIn(x, tbl)]]

(* createPermission: DUPLICATE_PERMISSION if (resource, action) exists; the
   store refuses a second row of the same name *)
createPermission(db, name, resource, action, up) ==
    LET row == PermissionRow(name, resource, action)
    IN  IF ~up
        THEN [ok |-> FALSE, error |-> "STORE_UNAVAILABLE",
              permissions |-> db.permissions]
        ELSE IF \E e \in Rows(db.permissions) :
                   e.resource = resource /\ e.action = action
        THEN [ok |-> FALSE, error |-> "DUPLICATE_PERMISSION",
              permissions |-> db.permissions]
        ELSE IF permission_conflict(db.permissions, row)
        THEN [ok |-> FALSE, error |-> "INTEGRITY_ERROR",
              permissions |-> db.permissions]
        ELSE [ok |-> TRUE, error |-> NULL,
              permissions |-> InsertRow(db.permissions, row)]

-----------------------------------------------------------------------------
(* scripts/seed_permissions.py *)

DEFAULT_PERMISSIONS ==
    << PermissionRow("system.admin", "system", "admin"),
       PermissionRow("user.create", "user", "create"),
       PermissionRow("user.read", "user", "read"),
       PermissionRow("user.update", "user", "update"),
       PermissionRow("user.delete", "user", "delete"),
       PermissionRow("knowledge_base.create", "knowledge_base", "create"),
       PermissionRow("knowledge_base.read", "knowledge_base", "read"),
       PermissionRow("knowledge_base.update", "knowledge_base", "update"),
       PermissionRow("knowledge_base.delete", "knowledge_base", "delete"),
       PermissionRow("analytics.read", "analytics", "read"),
       PermissionRow("analytics.admin", "analytics", "admin"),
       PermissionRow("conversation.create", "conversation", "create"),
       PermissionRow("conversation.read", "conversation", "read"),
       PermissionRow("conversation.update", "conversation", "update"),
       PermissionRow("conversation.delete", "conversation", "delete"),
       PermissionRow("scraping.submit", "scraping", "submit"),
       PermissionRow("scraping.admin", "scraping", "admin") >>

(* The loop: a row is added to the session unless a row of that name exists.
   `added` is the bag of rows the session holds, not yet flushed. *)
RECURSIVE seed_loop(_, _, _)
seed_loop(tbl, i, added) ==
    IF i > Len(DEFAULT_PERMISSIONS) THEN added
    ELSE LET perm_data == DEFAULT_PERMISSIONS[i]
             existing == \E e \in Rows(tbl) \cup Rows(added) :
                            e.name = perm_data.name
         IN  seed_loop(tbl, i + 1,
                       IF existing THEN added ELSE InsertRow(added, perm_data))

(* The flush of the session: the store checks name UNIQUE and
   UNIQUE(resource, action) for every added row, against the table and against
   the other added rows *)
flush_raises(tbl, added) ==
    \E a \in Rows(added) :
        \/ CopiesIn(a, added) > 1
        \/ permission_conflict(tbl, a)
        \/ \E b \in Rows(added) : b # a /\ permission_conflict(SetToBag({b}), a)

(* seed_permissions(db): nothing catches what the flush or db.commit() raises,
   and an uncommitted transaction leaves the table as it was *)
seed_permissions(db, up) ==
    LET added == seed_loop(db.permissions, 1, EmptyBag)
    IN  IF ~up \/ flush_raises(db.permissions, added)
        THEN [ok |-> FALSE, permissions |-> db.permissions]
        ELSE [ok |-> TRUE, permissions |-> db.permissions (+) added]

(* The loop stopped before iteration k: the rows the session holds when the
   store fails there *)
RECURSIVE seed_loop_until(_, _, _, _)
seed_loop_until(tbl, i, k, added) ==
    IF i > Len(DEFAULT_PERMISSIONS) \/ i >= k THEN added
    ELSE LET perm_data == DEFAULT_PERMISSIONS[i]
             existing == \E e \in Rows(tbl) \cup Rows(added) :
                            e.name = perm_data.name
         IN  seed_loop_until(tbl, i + 1, k,
                             IF existing THEN added ELSE InsertRow(added, perm_data))

(* The end of a session's transaction: the rows it has added reach the
   table when the store has applied COMMIT; a transaction that ends any other
   way (rollback, an exception that leaves it open, a lost connection) leaves
   the table without them *)
transaction_end(tbl, added, applied) ==
    IF applied THEN tbl (+) added ELSE tbl

(* A variant of seed_permissions_interrupted whose session commits every row
   as it adds it *)
seed_permissions_interrupted_autocommit(db, k, applied) ==
    [ok |-> FALSE,
     permissions |-> db.permissions (+) seed_loop_until(db.permissions, 1, k, EmptyBag)]

(* seed_permissions(db) when the store fails in iteration k of the loop, or in
   db.commit() for k = Len(DEFAULT_PERMISSIONS) + 1: the exception leaves the
   function.  In the loop the rows added so far are held in the session
   and its transaction is never committed.  In db.commit() the flush may
   raise on a constraint, or the store fails either before it has applied
   COMMIT or after it (`applied`), when only the acknowledgement is lost. *)
seed_permissions_interrupted(db, k, applied) ==
    LET added == seed_loop_until(db.permissions, 1, k, EmptyBag)
        in_commit == k > Len(DEFAULT_PERMISSIONS)
    IN  [ok |-> FALSE,
         permissions |->
            transaction_end(db.permissions, added,
                            /\ in_commit
                            /\ applied
                            /\ ~flush_raises(db.permissions, added))]

-----------------------------------------------------------------------------
(* auth/decorators.py: the permission gate.  The decorator passes
   current_user.organization_id as organization_id; here the organization is a
   parameter of the call. *)

Allow == [outcome |-> "allow", reason |-> NULL, detail |-> <<>>]
Deny(reason) == [outcome |-> "deny", reason |-> reason, detail |-> <<>>]
Raised(what) == [outcome |-> "exception", reason |-> what, detail |-> <<>>]
NoResponse == [outcome |-> "none", reason |-> NULL, detail |-> <<>>]

(* f"{resource}.{action}" *)
perm_string(resource, action) == resource \o "." \o action

(* HTTP 403 whose detail starts with "Insufficient permissions" and goes on
   with the permission strings in `required` *)
Forbidden(required) ==
    [outcome |-> "deny", reason |-> "INSUFFICIENT_PERMISSION",
     detail |-> required]

(* A variant of require_permission that loads the user's row first and
   fails when there is none *)
require_permission_strict_user(db, user_id, resource, action, organization_id, t, up) ==
    IF ~up THEN Raised("OperationalError")
    ELSE IF user_id \notin DOMAIN db.users THEN Raised("NoResultFound")
    ELSE IF check_permission(db, user_id, resource, action, organization_id, t)
    THEN Allow
    ELSE Forbidden(<<perm_string(resource, action)>>)

(* A variant of require_permission that writes the audit record before it
   answers and lets a write that cannot be made out to its caller *)
require_permission_audit_first(db, user_id, resource, action, organization_id, t, up) ==
    IF ~up THEN Raised("OperationalError")
    ELSE IF attempts > 0 THEN Raised("AuditWriteError")
    ELSE IF check_permission(db, user_id, resource, action, organization_id, t)
    THEN Allow
    ELSE Forbidden(<<perm_string(resource, action)>>)

(* db.execute raises when the store cannot be reached and neither
   check_permission nor the wrapper catches it; a false check raises
   HTTP 403 "Insufficient permissions: {resource}.{action}" *)
require_permission(db, user_id, resource, action, organization_id, t, up) ==
    IF ~up THEN Raised("OperationalError")
    ELSE IF check_permission(db, user_id, resource, action, organization_id, t)
    THEN Allow
    ELSE Forbidden(<<perm_string(resource, action)>>)

(* required_perms = [f"{r}.{a}" for r, a in permissions] *)
required_perms(perms) ==
    [i \in 1..Len(perms) |-> perm_string(perms[i][1], perms[i][2])]

(* What the any-of gate answers when every one of its statements reads the
   same store db at the same time t.
   any(rbac.check_permission(...) for resource, action in permissions): the
   first check_permission call raises when the store cannot be reached; an
   empty list makes no call and any() of it is False; a False result raises
   HTTP 403 "Insufficient permissions. Required any of: {required_perms}" *)
require_any_permission(db, user_id, perms, organization_id, t, up) ==
    IF ~up /\ perms # <<>> THEN Raised("OperationalError")
    ELSE IF \E i \in 1..Len(perms) :
               check_permission(db, user_id, perms[i][1], perms[i][2],
                                organization_id, t)
    THEN Allow
    ELSE Forbidden(required_perms(perms))

-----------------------------------------------------------------------------
(* createRole: DUPLICATE_ROLE if (name, organizationId) exists, a null
   organizationId counting as a value.  The new row's id stands for
   gen_random_uuid(): an id no row has. *)
NewRoleId(db) == "r" \o ToString(BagCardinality(db.roles) + 1)

createRole(db, name, organization_id, is_system_role, up) ==
    IF ~up
    THEN [ok |-> FALSE, error |-> "STORE_UNAVAILABLE", roles |-> db.roles]
    ELSE IF \E e \in Rows(db.roles) :
               e.name = name /\ e.organization_id = organization_id
    THEN [ok |-> FALSE, error |-> "DUPLICATE_ROLE", roles |-> db.roles]
    ELSE [ok |-> TRUE, error |-> NULL,
          roles |-> InsertRow(db.roles,
                              RoleRow(NewRoleId(db), name, organization_id,
                                      is_system_role))]

-----------------------------------------------------------------------------
(* Audit Recorder: a bounded, ordered queue in front of the audit_logs table *)

QueueCapacity == 2
MaxRecords == 2
MaxAttempts == 2

Producers == {"p1", "p2"}
AuditRecord(p, n) == [by |-> p, seq |-> n]
NoRecord == AuditRecord(NULL, 0)

(* A variant of audit_put that takes the record from the producer when the
   queue is full and discards it *)
audit_put_dropping(queue, rec) ==
    IF Len(queue) < QueueCapacity
    THEN [accepted |-> TRUE, queue |-> Append(queue, rec)]
    ELSE [accepted |-> TRUE, queue |-> queue]

(* The producer's hand-over: the record is appended when there is room; when
   the queue is full the record is not taken and the producer stays blocked *)
audit_put(queue, rec) ==
    IF Len(queue) < QueueCapacity
    THEN [accepted |-> TRUE, queue |-> Append(queue, rec)]
    ELSE [accepted |-> FALSE, queue |-> queue]

-----------------------------------------------------------------------------
(* The store after bootstrap: a first user in organization o1, a second user
   in organization o2 or in none, active or deactivated; the catalog seeded
   into an empty permissions table; a system role and a role scoped to o1. *)

Assigners == {"u1"}
AttachPerms == {"knowledge_base.delete", "user.update"}
QueryPairs == {<<"knowledge_base", "delete">>, <<"user", "update">>}

UserRow(org, active) == [organization_id |-> org, is_active |-> active]

EmptyDB ==
    [users |-> <<>>, roles |-> EmptyBag, permissions |-> EmptyBag,
     user_roles |-> EmptyBag, role_permissions |-> EmptyBag]

BootRoles ==
    SetToBag({RoleRow("r1", "Super Admin", NULL, TRUE),
              RoleRow("r2", "Organization Admin", "o1", FALSE)})

AuditIdle ==
    /\ auditQueue = <<>>
    /\ audit_logs = <<>>
    /\ pending = [p \in Producers |-> NoRecord]
    /\ submitted = {}
    /\ attempts = 0

(* The clients that call the checker while administration goes on *)
Clients == {"c1", "c2"}

(* No call in progress *)
NoCall == [pc |-> "idle"]

CallsIdle ==
    /\ calls = [c \in Clients |-> NoCall]
    /\ barred = {}

-----------------------------------------------------------------------------
(* HomeUpload.jsx: the upload card.  The state is the component's useState
   values, the place each handleUpload call has reached ("fetch": awaiting
   fetch, "json": awaiting response.json(), "done"), and the interval timer
   each call set, with the `prog` counter its callback closes over and
   whether it is still running.  Call i set timer i. *)

MaxTicks == 12
MaxUploads == 2

MsgNone == ""
MsgNoFile == "Please select a file to upload."
MsgSuccess == "OK data.message"
MsgFailed == "Upload failed. Please try again."
MsgError == "Error uploading file. Please try again."

(* useState(null), useState(false), useState(0), useState("") *)
HomeUploadMounted ==
    [file |-> FALSE, uploading |-> FALSE, progress |-> 0, message |-> MsgNone,
     calls |-> <<>>, timers |-> <<>>]

(* handleFileChange: setFile(e.target.files[0]), which is undefined when the
   event carries no file (selected = FALSE) *)
handleFileChange(s, selected) ==
    [s EXCEPT !.file = selected, !.message = MsgNone, !.progress = 0]

(* handleDrop: sets the state only if the drop carries a file *)
handleDrop(s, dropped) ==
    IF dropped
    THEN [s EXCEPT !.file = TRUE, !.message = MsgNone, !.progress = 0]
    ELSE s

(* handleUpload up to its await fetch(...) *)
handleUpload(s) ==
    IF ~s.file THEN [s EXCEPT !.message = MsgNoFile]
    ELSE [s EXCEPT !.uploading = TRUE, !.message = MsgNone, !.progress = 0,
                   !.timers = Append(@, [prog |-> 0, running |-> TRUE]),
                   !.calls = Append(@, "fetch")]

(* the interval callback of timer i: prog += 10; setProgress(prog) *)
interval_tick(s, i) ==
    [s EXCEPT !.timers[i].prog = @ + 10, !.progress = s.timers[i].prog + 10]

(* clearInterval(interval) of call i *)
clearInterval(timers, i) == [timers EXCEPT ![i].running = FALSE]

(* the fetch promise of call i resolves: lines 64-72 up to
   await response.json() *)
fetch_resolved(s, i, ok) ==
    LET t == [s EXCEPT !.timers = clearInterval(@, i), !.progress = 100,
                       !.uploading = FALSE]
    IN  IF ok THEN [t EXCEPT !.calls[i] = "json"]
        ELSE [t EXCEPT !.message = MsgFailed, !.calls[i] = "done"]

(* response.json() of call i resolves: setMessage of the success message *)
json_resolved(s, i) == [s EXCEPT !.message = MsgSuccess, !.calls[i] = "done"]

(* catch (err) of call i: setUploading(false); setMessage(...) *)
upload_caught(s, i) ==
    [s EXCEPT !.uploading = FALSE, !.message = MsgError, !.calls[i] = "done"]

(* the organizations the server holds before the component is mounted *)
ServerOrgs == <<1>>

(* OrgManager.jsx before it is mounted: useState([]); the server holds
   ServerOrgs.  fetched, created, deleted and early record what happened:
   the list the GET returned, the ids of completed creates and deletes, and
   whether a handler was called before the list had arrived. *)
OrgManagerUnmounted ==
    [mounted |-> FALSE, isSystemAdmin |-> FALSE, orgs |-> <<>>,
     list |-> "none", requests |-> <<>>, server |-> ServerOrgs,
     next_id |-> Len(ServerOrgs) + 1,
     creates |-> 0, fetched |-> <<>>, created |-> {}, deleted |-> {},
     early |-> FALSE]

UiIdle ==
    /\ homeUpload = HomeUploadMounted
    /\ orgManager = OrgManagerUnmounted

Init ==
    /\ \E org \in {"o2", NULL}, active \in BOOLEAN :
          users = [u \in UserIds |->
                     IF u = "u1" THEN UserRow("o1", TRUE)
                     ELSE UserRow(org, active)]
    /\ roles = BootRoles
    /\ permissions = seed_permissions(EmptyDB, TRUE).permissions
    /\ user_roles = EmptyBag
    /\ role_permissions = EmptyBag
    /\ now = 0
    /\ nops = 0
    /\ resp = NoResponse
    /\ AuditIdle
    /\ CallsIdle
    /\ UiIdle

-----------------------------------------------------------------------------
(* Operations on the store *)

Committed(ok, before, after) == IF ok /\ after # before THEN nops + 1 ELSE nops

AssignRole(u, r, by, exp, up) ==
    LET res == assign_role(DB, u, r, by, exp, now, up)
    IN  /\ nops < MaxOps
        /\ user_roles' = res.user_roles
        /\ nops' = Committed(res.ok, user_roles, res.user_roles)
        /\ UNCHANGED <<users, roles, permissions, role_permissions, now, resp>>
        /\ UNCHANGED auditVars
        /\ UNCHANGED callVars
        /\ UNCHANGED uiVars

RevokeRole(u, r, up) ==
    LET res == revokeRole(DB, u, r, up)
    IN  /\ nops < MaxOps
        /\ user_roles' = res.user_roles
        /\ nops' = Committed(res.ok, user_roles, res.user_roles)
        /\ UNCHANGED <<users, roles, permissions, role_permissions, now, resp>>
        /\ UNCHANGED auditVars
        /\ UNCHANGED callVars
        /\ UNCHANGED uiVars

AttachPermission(r, p, up) ==
    LET res == attachPermission(DB, r, p, up)
    IN  /\ nops < MaxOps
        /\ role_permissions' = res.role_permissions
        /\ nops' = Committed(res.ok, role_permissions, res.role_permissions)
        /\ UNCHANGED <<users, roles, permissions, user_roles, now, resp>>
        /\ UNCHANGED auditVars
        /\ UNCHANGED callVars
        /\ UNCHANGED uiVars

DetachPermission(r, p, up) ==
    LET res == detachPermission(DB, r, p, up)
    IN  /\ nops < MaxOps
        /\ role_permissions' = res.role_permissions
        /\ nops' = Committed(res.ok, role_permissions, res.role_permissions)
        /\ UNCHANGED <<users, roles, permissions, user_roles, now, resp>>
        /\ UNCHANGED auditVars
        /\ UNCHANGED callVars
        /\ UNCHANGED uiVars

(* The value the one statement of a call gives on a store: the boolean of
   check_permission, called by the gate with
   organization_id = current_user.organization_id, or the rows of
   get_user_permissions *)
call_value(db, kind, user_id, pair, t) ==
    IF kind = "check"
    THEN check_permission(db, user_id, pair[1], pair[2],
                          db.users[user_id].organization_id, t)
    ELSE get_user_permissions(db, user_id, t)

(* The pairs the user is allowed on a store *)
held(db, user_id, t) ==
    {pair \in QueryPairs :
        check_permission(db, user_id, pair[1], pair[2], NULL, t)}

(* Whether require_permission lets the user through for at least one of the
   listed permissions on a store *)
some_allowed(db, user_id, perms, organization_id, t) ==
    \E i \in 1..Len(perms) :
        require_permission(db, user_id, perms[i][1], perms[i][2],
                           organization_id, t, TRUE) = Allow

(* The session of a call has run no statement yet: no transaction is open *)
NoTransaction == -1

(* NOW() as a statement of the call reads it at clock t: the start time of
   the session's transaction, which the call's first statement opens and
   which stays open until the request ends *)
transaction_now(call, t) ==
    IF call.txn_now = NoTransaction THEN t ELSE call.txn_now

(* A new store state as the calls in progress meet it: the store `after` at
   time t is one more state between their start and their return.  A call of
   the any-of gate whose transaction is open reads the store at the
   transaction's NOW(); it is undisturbed as long as no write has committed
   since it began, so that all its statements read one store state. *)
calls_meeting_at(after, t) ==
    [c \in Clients |->
       IF calls[c].pc \in {"idle", "returned"} THEN calls[c]
       ELSE IF calls[c].kind = "any"
       THEN [calls[c] EXCEPT
               !.could = @ \cup {some_allowed(after, calls[c].user_id,
                                               calls[c].perms, calls[c].org,
                                               transaction_now(calls[c], t))},
               !.undisturbed = @ /\ after = DB]
       ELSE [calls[c] EXCEPT
               !.could = @ \cup {call_value(after, calls[c].kind,
                                            calls[c].user_id, calls[c].pair, t)},
               !.must_deny = @ /\ calls[c].pair \notin held(after, calls[c].user_id, t)]]

(* A committed write as the calls in progress meet it *)
calls_meeting(after) == calls_meeting_at(after, now)

(* A call through the permission gate: it reads the store and writes nothing,
   neither a table nor an audit record *)
RequirePermission(u, pair, org, up) ==
    /\ resp' = require_permission(DB, u, pair[1], pair[2], org, now, up)
    /\ UNCHANGED <<now, nops>>
    /\ UNCHANGED storeVars
    /\ UNCHANGED auditVars
    /\ UNCHANGED callVars
    /\ UNCHANGED uiVars

Tick ==
    /\ now < MaxTime
    /\ now' = now + 1
    /\ calls' = calls_meeting_at(DB, now + 1)
    /\ UNCHANGED <<nops, resp, barred>>
    /\ UNCHANGED storeVars
    /\ UNCHANGED auditVars
    /\ UNCHANGED uiVars

Next ==
    \/ \E u \in UserIds, r \in RoleIdsOf(DB), by \in Assigners,
          exp \in Expiries, up \in BOOLEAN : AssignRole(u, r, by, exp, up)
    \/ \E u \in UserIds, r \in RoleIdsOf(DB), up \in BOOLEAN :
          RevokeRole(u, r, up)
    \/ \E r \in RoleIdsOf(DB), p \in AttachPerms, up \in BOOLEAN :
          AttachPermission(r, p, up)
    \/ \E r \in RoleIdsOf(DB), p \in AttachPerms, up \in BOOLEAN :
          DetachPermission(r, p, up)
    \/ Tick

(* Administration of grants and links against the bootstrapped store *)
Spec == Init /\ [][Next]_vars

(* Administration of grants alone: assign_role and revokeRole as the clock
   advances *)
NextGrants ==
    \/ \E u \in UserIds, r \in RoleIdsOf(DB), by \in Assigners,
          exp \in Expiries, up \in BOOLEAN : AssignRole(u, r, by, exp, up)
    \/ \E u \in UserIds, r \in RoleIdsOf(DB), up \in BOOLEAN :
          RevokeRole(u, r, up)
    \/ Tick

SpecGrants == Init /\ [][NextGrants]_vars

(* Administration of links next to grants: attachPermission and
   detachPermission, with assign_role giving the roles to users, as the
   clock advances *)
NextLinks ==
    \/ \E u \in UserIds, r \in RoleIdsOf(DB), by \in Assigners,
          exp \in Expiries, up \in BOOLEAN : AssignRole(u, r, by, exp, up)
    \/ \E r \in RoleIdsOf(DB), p \in AttachPerms, up \in BOOLEAN :
          AttachPermission(r, p, up)
    \/ \E r \in RoleIdsOf(DB), p \in AttachPerms, up \in BOOLEAN :
          DetachPermission(r, p, up)
    \/ Tick

SpecLinks == Init /\ [][NextLinks]_vars

-----------------------------------------------------------------------------
(* Calls through the permission gate, against a store in which one permission
   has been attached to a role and one role granted to a user *)

InitGate ==
    /\ \E org \in {"o2", NULL}, active \in BOOLEAN :
          users = [u \in UserIds |->
                     IF u = "u1" THEN UserRow("o1", TRUE)
                     ELSE UserRow(org, active)]
    /\ roles = BootRoles
    /\ permissions = seed_permissions(EmptyDB, TRUE).permissions
    /\ \E r \in RoleIdsOf([roles |-> BootRoles]), p \in AttachPerms :
          role_permissions =
              attachPermission([EmptyDB EXCEPT !.roles = BootRoles,
                                               !.permissions = permissions],
                               r, p, TRUE).role_permissions
    /\ \E u \in UserIds, r \in RoleIdsOf([roles |-> BootRoles]),
          exp \in Expiries :
          user_roles =
              assign_role([EmptyDB EXCEPT !.users = users,
                                          !.roles = BootRoles],
                          u, r, "u1", exp, 0, TRUE).user_roles
    /\ now = 0
    /\ nops = 2
    /\ resp = NoResponse
    /\ AuditIdle
    /\ CallsIdle
    /\ UiIdle

(* The longest permission list given to require_any_permission *)
MaxPairs == 2

PermLists == UNION {[1..n -> QueryPairs] : n \in 0..MaxPairs}

(* A user id that no row of the users table has *)
UnknownUser == "u9"
Callers == UserIds \cup {UnknownUser}

(* What the two RBACManager queries give their caller *)
Checked(result) ==
    [outcome |-> "checked", reason |-> NULL, detail |-> <<>>, result |-> result]
Listed(perms) ==
    [outcome |-> "listed", reason |-> NULL, detail |-> <<>>, result |-> perms]

(* The clients that call through the any-of gate *)
GateClients == {"c1"}

(* A call through the any-of gate begins: any() has drawn nothing from its
   generator yet.  An empty list draws nothing at all: any() is False and the
   gate raises the 403 without a statement.  `could` keeps, for each store
   state the call meets, whether require_permission lets the user through for
   some listed permission. *)
RequireAnyPermission(c, u, perms, org) ==
    /\ calls[c].pc = "idle"
    /\ IF perms = <<>>
       THEN /\ resp' = Forbidden(required_perms(perms))
            /\ UNCHANGED calls
       ELSE /\ calls' = [calls EXCEPT ![c] =
                           [pc |-> "any", kind |-> "any", user_id |-> u,
                            perms |-> perms, org |-> org, i |-> 1,
                            txn_now |-> NoTransaction, undisturbed |-> TRUE,
                            could |-> {some_allowed(DB, u, perms, org, now)}]]
            /\ UNCHANGED resp
    /\ UNCHANGED <<now, nops, barred>>
    /\ UNCHANGED storeVars
    /\ UNCHANGED auditVars
    /\ UNCHANGED uiVars

(* A variant of CheckNextPermission that looks at the first listed permission
   only: a miss raises the 403 at once *)
CheckNextPermission_first_only(c, up) ==
    /\ calls[c].pc = "any"
    /\ LET call == calls[c]
           pair == call.perms[call.i]
           t    == transaction_now(call, now)
       IN  /\ resp' = IF ~up THEN Raised("OperationalError")
                      ELSE IF check_permission(DB, call.user_id, pair[1],
                                               pair[2], call.org, t)
                      THEN Allow
                      ELSE Forbidden(required_perms(call.perms))
           /\ calls' = [calls EXCEPT ![c] = NoCall]
    /\ UNCHANGED <<now, nops, barred>>
    /\ UNCHANGED storeVars
    /\ UNCHANGED auditVars
    /\ UNCHANGED uiVars

(* The next rbac.check_permission of the generator: one statement on the
   rows committed by now, with NOW() the start time of the session's
   transaction, which the first statement opens.  It raises when the store
   cannot be reached; True ends any() and lets the request through; False
   goes on to the next listed permission, and after the last one the gate
   raises the 403. *)
CheckNextPermission(c, up) ==
    /\ calls[c].pc = "any"
    /\ LET call == calls[c]
           pair == call.perms[call.i]
           t    == transaction_now(call, now)
       IN  IF ~up
           THEN /\ resp' = Raised("OperationalError")
                /\ calls' = [calls EXCEPT ![c] = NoCall]
           ELSE IF check_permission(DB, call.user_id, pair[1], pair[2],
                                    call.org, t)
           THEN /\ resp' = Allow
                /\ calls' = [calls EXCEPT ![c] = NoCall]
           ELSE IF call.i = Len(call.perms)
           THEN /\ resp' = Forbidden(required_perms(call.perms))
                /\ calls' = [calls EXCEPT ![c] = NoCall]
           ELSE /\ calls' = [calls EXCEPT ![c] =
                               [@ EXCEPT !.i = @ + 1, !.txn_now = t]]
                /\ UNCHANGED resp
    /\ UNCHANGED <<now, nops, barred>>
    /\ UNCHANGED storeVars
    /\ UNCHANGED auditVars
    /\ UNCHANGED uiVars

(* A variant of CheckPermission that sweeps the grants it finds expired:
   it sets their is_active to false *)
CheckPermission_sweeping_expired(u, pair, org, up) ==
    /\ resp' = IF up
               THEN Checked(check_permission(DB, u, pair[1], pair[2], org, now))
               ELSE Raised("OperationalError")
    /\ user_roles' =
          IF up
          THEN LET live == {x \in Rows(user_roles) :
                              x.expires_at = NoExpiry \/ x.expires_at > now}
                   dead == {[x EXCEPT !.is_active = FALSE] :
                              x \in Rows(user_roles) \ live}
               IN  SetToBag(live \cup dead)
          ELSE user_roles
    /\ UNCHANGED <<users, roles, permissions, role_permissions, now, nops>>
    /\ UNCHANGED auditVars
    /\ UNCHANGED callVars
    /\ UNCHANGED uiVars

(* RBACManager.check_permission called directly: one SELECT *)
CheckPermission(u, pair, org, up) ==
    /\ resp' = IF up
               THEN Checked(check_permission(DB, u, pair[1], pair[2], org, now))
               ELSE Raised("OperationalError")
    /\ UNCHANGED <<now, nops>>
    /\ UNCHANGED storeVars
    /\ UNCHANGED auditVars
    /\ UNCHANGED callVars
    /\ UNCHANGED uiVars

(* RBACManager.get_user_permissions: one SELECT *)
GetUserPermissions(u, up) ==
    /\ resp' = IF up
               THEN Listed(get_user_permissions(DB, u, now))
               ELSE Raised("OperationalError")
    /\ UNCHANGED <<now, nops>>
    /\ UNCHANGED storeVars
    /\ UNCHANGED auditVars
    /\ UNCHANGED callVars
    /\ UNCHANGED uiVars

(* The permission list of the endpoint that stands behind the any-of gate
   in these calls *)
GateLists == {<<<<"knowledge_base", "delete">>, <<"user", "update">>>>}

NextGate ==
    \/ \E u \in Callers, pair \in QueryPairs, org \in OrgArgs, up \in BOOLEAN :
          RequirePermission(u, pair, org, up)
    \/ \E u \in Callers, pair \in QueryPairs, org \in OrgArgs, up \in BOOLEAN :
          CheckPermission(u, pair, org, up)
    \/ \E u \in Callers, up \in BOOLEAN : GetUserPermissions(u, up)
    \/ \E c \in GateClients, u \in UserIds, perms \in GateLists :
          RequireAnyPermission(c, u, perms, users[u].organization_id)
    \/ \E c \in GateClients, up \in BOOLEAN : CheckNextPermission(c, up)
    \/ Tick

SpecGate == InitGate /\ [][NextGate]_vars

-----------------------------------------------------------------------------
(* Creation of permissions and roles and the seeding of the catalog, from an
   empty store *)

MaxRoles == 2

PermInputs ==
    {PermissionRow("knowledge_base.read", "knowledge_base", "read"),
     PermissionRow("kb.read", "knowledge_base", "read"),
     PermissionRow("audit.read", "audit", "read"),
     PermissionRow("system.admin", "audit", "export")}
RoleNames == {"Super Admin", "Support"}

InitCatalog ==
    /\ \E org \in {"o2", NULL}, active \in BOOLEAN :
          users = [u \in UserIds |->
                     IF u = "u1" THEN UserRow("o1", TRUE)
                     ELSE UserRow(org, active)]
    /\ roles = EmptyBag
    /\ permissions = EmptyBag
    /\ user_roles = EmptyBag
    /\ role_permissions = EmptyBag
    /\ now = 0
    /\ nops = 0
    /\ resp = NoResponse
    /\ AuditIdle
    /\ CallsIdle
    /\ UiIdle

CreatePermission(row, up) ==
    /\ permissions' =
          createPermission(DB, row.name, row.resource, row.action, up).permissions
    /\ UNCHANGED <<users, roles, user_roles, role_permissions, now, nops, resp>>
    /\ UNCHANGED auditVars
    /\ UNCHANGED callVars
    /\ UNCHANGED uiVars

CreateRole(name, org, sys, up) ==
    /\ BagCardinality(roles) < MaxRoles
    /\ roles' = createRole(DB, name, org, sys, up).roles
    /\ UNCHANGED <<users, permissions, user_roles, role_permissions, now, nops,
                   resp>>
    /\ UNCHANGED auditVars
    /\ UNCHANGED callVars
    /\ UNCHANGED uiVars

SeedPermissions(up) ==
    /\ permissions' = seed_permissions(DB, up).permissions
    /\ UNCHANGED <<users, roles, user_roles, role_permissions, now, nops, resp>>
    /\ UNCHANGED auditVars
    /\ UNCHANGED callVars
    /\ UNCHANGED uiVars

(* INSERT INTO roles (name, organization_id, is_system_role): the roles table
   takes every row that unique_role_per_org admits *)
insert_role(db, name, organization_id, is_system_role, up) ==
    LET row == RoleRow(NewRoleId(db), name, organization_id, is_system_role)
    IN  IF ~up \/ role_conflict(db.roles, row)
        THEN [ok |-> FALSE, roles |-> db.roles]
        ELSE [ok |-> TRUE, roles |-> InsertRow(db.roles, row)]

InsertRole(name, org, sys, up) ==
    /\ BagCardinality(roles) < MaxRoles
    /\ roles' = insert_role(DB, name, org, sys, up).roles
    /\ UNCHANGED <<users, permissions, user_roles, role_permissions, now, nops,
                   resp>>
    /\ UNCHANGED auditVars
    /\ UNCHANGED callVars
    /\ UNCHANGED uiVars

FailurePoints == 1..(Len(DEFAULT_PERMISSIONS) + 1)

(* seed_permissions fails at point k: the exception leaves the function *)
SeedPermissionsInterrupted(k, applied) ==
    /\ resp' = Raised("OperationalError")
    /\ UNCHANGED <<users, roles, user_roles, role_permissions, now, nops>>
    /\ UNCHANGED auditVars
    /\ UNCHANGED callVars
    /\ UNCHANGED uiVars
    /\ permissions' = seed_permissions_interrupted(DB, k, applied).permissions

(* assign_role while the store fails: it returns False *)
AssignRoleFailing(u, r, by, exp, fault) ==
    LET res == assign_role_failing(DB, u, r, by, exp, now, fault)
    IN  /\ nops < MaxOps
        /\ user_roles' = res.user_roles
        /\ nops' = Committed(res.ok, user_roles, res.user_roles)
        /\ UNCHANGED <<users, roles, permissions, role_permissions, now, resp>>
        /\ UNCHANGED auditVars
        /\ UNCHANGED callVars
        /\ UNCHANGED uiVars

NextCatalog ==
    \/ \E row \in PermInputs, up \in BOOLEAN : CreatePermission(row, up)
    \/ \E name \in RoleNames, org \in {NULL, "o1"}, sys \in BOOLEAN,
          up \in BOOLEAN : CreateRole(name, org, sys, up)
    \/ \E name \in RoleNames, org \in {NULL, "o1"}, sys \in BOOLEAN,
          up \in BOOLEAN : InsertRole(name, org, sys, up)
    \/ \E up \in BOOLEAN : SeedPermissions(up)

SpecCatalog == InitCatalog /\ [][NextCatalog]_vars

(* Administration from an empty store while the store fails now and then;
   the seeding is attempted only while it fails *)
InitFailures ==
    /\ users = [u \in UserIds |->
                  IF u = "u1" THEN UserRow("o1", TRUE) ELSE UserRow("o2", TRUE)]
    /\ roles = EmptyBag
    /\ permissions = EmptyBag
    /\ user_roles = EmptyBag
    /\ role_permissions = EmptyBag
    /\ now = 0
    /\ nops = 0
    /\ resp = NoResponse
    /\ AuditIdle
    /\ CallsIdle
    /\ UiIdle

NextFailures ==
    \/ \E row \in PermInputs, up \in BOOLEAN : CreatePermission(row, up)
    \/ \E name \in RoleNames, up \in BOOLEAN : CreateRole(name, "o1", FALSE, up)
    \/ \E k \in FailurePoints, applied \in BOOLEAN :
          SeedPermissionsInterrupted(k, applied)
    \/ \E u \in UserIds, r \in RoleIdsOf(DB), by \in Assigners, up \in BOOLEAN :
          AssignRole(u, r, by, NoExpiry, up)
    \/ \E u \in UserIds, r \in RoleIdsOf(DB), by \in Assigners,
          fault \in StoreFaults : AssignRoleFailing(u, r, by, NoExpiry, fault)
    \/ \E u \in UserIds, r \in RoleIdsOf(DB), up \in BOOLEAN :
          RevokeRole(u, r, up)
    \/ \E r \in RoleIdsOf(DB), p \in AttachPerms, up \in BOOLEAN :
          AttachPermission(r, p, up)
    \/ \E r \in RoleIdsOf(DB), p \in AttachPerms, up \in BOOLEAN :
          DetachPermission(r, p, up)

SpecFailures == InitFailures /\ [][NextFailures]_vars

-----------------------------------------------------------------------------
(* The audit recorder: producers hand records over, the flusher writes the
   head of the queue to audit_logs and retries a write that failed *)

InitAudit ==
    /\ users = [u \in UserIds |-> UserRow("o1", TRUE)]
    /\ roles = BootRoles
    /\ permissions = seed_permissions(EmptyDB, TRUE).permissions
    /\ user_roles = EmptyBag
    /\ role_permissions = EmptyBag
    /\ now = 0
    /\ nops = 0
    /\ resp = NoResponse
    /\ AuditIdle
    /\ CallsIdle
    /\ UiIdle

SubmittedBy(p) == {r \in submitted : r.by = p}

(* A producer has a new record to be recorded *)
Record(p) ==
    /\ pending[p] = NoRecord
    /\ Cardinality(SubmittedBy(p)) < MaxRecords
    /\ LET rec == AuditRecord(p, Cardinality(SubmittedBy(p)) + 1)
       IN  /\ pending' = [pending EXCEPT ![p] = rec]
           /\ submitted' = submitted \cup {rec}
    /\ UNCHANGED <<auditQueue, audit_logs, attempts, now, nops, resp>>
    /\ UNCHANGED storeVars
    /\ UNCHANGED callVars
    /\ UNCHANGED uiVars

(* The hand-over completes; not enabled while the queue is full *)
Enqueue(p) ==
    /\ pending[p] # NoRecord
    /\ LET put == audit_put(auditQueue, pending[p])
       IN  /\ put.accepted
           /\ auditQueue' = put.queue
    /\ pending' = [pending EXCEPT ![p] = NoRecord]
    /\ UNCHANGED <<audit_logs, submitted, attempts, now, nops, resp>>
    /\ UNCHANGED storeVars
    /\ UNCHANGED callVars
    /\ UNCHANGED uiVars

(* A variant of FlushWritten that keeps only the latest record in the table *)
FlushWritten_keeping_latest ==
    /\ auditQueue # <<>>
    /\ audit_logs' = <<Head(auditQueue)>>
    /\ auditQueue' = Tail(auditQueue)
    /\ attempts' = 0
    /\ UNCHANGED <<pending, submitted, now, nops, resp>>
    /\ UNCHANGED storeVars
    /\ UNCHANGED callVars
    /\ UNCHANGED uiVars

(* The head record is written and leaves the queue *)
FlushWritten ==
    /\ auditQueue # <<>>
    /\ audit_logs' = Append(audit_logs, Head(auditQueue))
    /\ auditQueue' = Tail(auditQueue)
    /\ attempts' = 0
    /\ UNCHANGED <<pending, submitted, now, nops, resp>>
    /\ UNCHANGED storeVars
    /\ UNCHANGED callVars
    /\ UNCHANGED uiVars

(* A variant of FlushFailed that gives the record up when its write fails *)
FlushFailed_discarding ==
    /\ auditQueue # <<>>
    /\ attempts < MaxAttempts
    /\ auditQueue' = Tail(auditQueue)
    /\ attempts' = 0
    /\ UNCHANGED <<audit_logs, pending, submitted, now, nops, resp>>
    /\ UNCHANGED storeVars
    /\ UNCHANGED callVars
    /\ UNCHANGED uiVars

(* A variant of FlushFailed that puts the record whose write failed at the
   back of the queue *)
FlushFailed_requeueing ==
    /\ auditQueue # <<>>
    /\ attempts < MaxAttempts
    /\ auditQueue' = Append(Tail(auditQueue), Head(auditQueue))
    /\ attempts' = attempts + 1
    /\ UNCHANGED <<audit_logs, pending, submitted, now, nops, resp>>
    /\ UNCHANGED storeVars
    /\ UNCHANGED callVars
    /\ UNCHANGED uiVars

(* The write fails: the record stays at the head, to be retried *)
FlushFailed ==
    /\ auditQueue # <<>>
    /\ attempts < MaxAttempts
    /\ attempts' = attempts + 1
    /\ UNCHANGED <<auditQueue, audit_logs, pending, submitted, now, nops, resp>>
    /\ UNCHANGED storeVars
    /\ UNCHANGED callVars
    /\ UNCHANGED uiVars

(* The write reaches the table but its acknowledgement is lost: the record
   stays at the head and the retry writes it again *)
FlushUnacknowledged ==
    /\ auditQueue # <<>>
    /\ attempts < MaxAttempts
    /\ audit_logs' = Append(audit_logs, Head(auditQueue))
    /\ attempts' = attempts + 1
    /\ UNCHANGED <<auditQueue, pending, submitted, now, nops, resp>>
    /\ UNCHANGED storeVars
    /\ UNCHANGED callVars
    /\ UNCHANGED uiVars

NextAudit ==
    \/ \E p \in Producers : Record(p)
    \/ \E p \in Producers : Enqueue(p)
    \/ FlushWritten
    \/ FlushFailed
    \/ FlushUnacknowledged

SpecAudit == InitAudit /\ [][NextAudit]_vars

-----------------------------------------------------------------------------
(* Calls through the permission gate while the audit recorder runs: one
   producer hands records over and the flusher writes, fails and retries *)

InitGateAudit ==
    /\ users = [u \in UserIds |->
                  IF u = "u1" THEN UserRow("o1", TRUE) ELSE UserRow("o2", TRUE)]
    /\ roles = BootRoles
    /\ permissions = seed_permissions(EmptyDB, TRUE).permissions
    /\ role_permissions =
          SetToBag({RolePermissionRow("r2", "knowledge_base.delete")})
    /\ user_roles = SetToBag({UserRoleRow("u1", "r2", "u1", 0, 1, TRUE)})
    /\ now = 0
    /\ nops = 2
    /\ resp = NoResponse
    /\ AuditIdle
    /\ CallsIdle
    /\ UiIdle

NextGateAudit ==
    \/ \E u \in UserIds, pair \in QueryPairs, org \in OrgArgs, up \in BOOLEAN :
          RequirePermission(u, pair, org, up)
    \/ Tick
    \/ Record("p1")
    \/ Enqueue("p1")
    \/ FlushWritten
    \/ FlushFailed
    \/ FlushUnacknowledged

SpecGateAudit == InitGateAudit /\ [][NextGateAudit]_vars

-----------------------------------------------------------------------------
(* Grants and revocations against a store that holds two roles of the role
   hierarchy with the permissions the hierarchy documents for them *)

(* Role Hierarchy: the permissions of a role; "*" stands for every action of
   the resource *)
ROLE_HIERARCHY ==
    [r \in {"Super Admin", "Organization Admin", "Team Lead", "Regular User",
            "Guest User"} |->
        CASE r = "Super Admin" ->
             {<<"system", "admin">>, <<"organization", "*">>, <<"user", "*">>,
              <<"analytics", "admin">>, <<"knowledge_base", "*">>,
              <<"audit", "read">>}
          [] r = "Organization Admin" ->
             {<<"organization", "read">>, <<"organization", "update">>,
              <<"user", "create">>, <<"user", "read">>, <<"user", "update">>,
              <<"user", "delete">>, <<"knowledge_base", "*">>,
              <<"analytics", "read">>, <<"scraping", "admin">>}
          [] r = "Team Lead" ->
             {<<"user", "read">>, <<"user", "invite">>,
              <<"knowledge_base", "create">>, <<"knowledge_base", "read">>,
              <<"knowledge_base", "update">>, <<"analytics", "read">>,
              <<"conversation", "read">>}
          [] r = "Regular User" ->
             {<<"knowledge_base", "read">>, <<"conversation", "create">>,
              <<"conversation", "read">>, <<"conversation", "update">>,
              <<"scraping", "submit">>, <<"profile", "read">>,
              <<"profile", "update">>}
          [] r = "Guest User" ->
             {<<"knowledge_base", "read">>, <<"conversation", "create">>,
              <<"conversation", "read">>}]

HierarchyRoles ==
    SetToBag({RoleRow("r1", "Regular User", NULL, TRUE),
              RoleRow("r2", "Organization Admin", "o1", FALSE)})

(* One link for every permission of the table that names a role of the
   hierarchy and a permission the hierarchy gives it *)
HierarchyLinks(perms) ==
    SetToBag({RolePermissionRow(r.id, p.name) :
                <<r, p>> \in
                   {x \in Rows(HierarchyRoles) \X Rows(perms) :
                      \/ <<x[2].resource, x[2].action>> \in ROLE_HIERARCHY[x[1].name]
                      \/ <<x[2].resource, "*">> \in ROLE_HIERARCHY[x[1].name]}})

InitHierarchy ==
    /\ \E org \in OrgIds, active \in BOOLEAN :
          users = [u \in UserIds |->
                     IF u = "u1" THEN UserRow("o1", TRUE)
                     ELSE UserRow(org, active)]
    /\ roles = HierarchyRoles
    /\ permissions = seed_permissions(EmptyDB, TRUE).permissions
    /\ user_roles = EmptyBag
    /\ role_permissions = HierarchyLinks(permissions)
    /\ now = 0
    /\ nops = 0
    /\ resp = NoResponse
    /\ AuditIdle
    /\ CallsIdle
    /\ UiIdle

NextHierarchy ==
    \/ \E u \in UserIds, r \in RoleIdsOf(DB), by \in Assigners,
          exp \in Expiries, up \in BOOLEAN : AssignRole(u, r, by, exp, up)
    \/ \E u \in UserIds, r \in RoleIdsOf(DB), up \in BOOLEAN :
          RevokeRole(u, r, up)
    \/ Tick

SpecHierarchy == InitHierarchy /\ [][NextHierarchy]_vars

-----------------------------------------------------------------------------
(* Read calls in progress while administration writes.  A call starts, runs
   its one SQL statement against the store, and returns; administration
   commits between any two of these steps. *)

(* The user whose calls run while administration writes to that user's grants
   and roles; calls for different users at a time are those of
   NextCallsAudit *)
CallUsers == {"u1"}

(* The store without the grant rows of (user_id, role_id) *)
without_grant(db, user_id, role_id) ==
    LET keep == {x \in Rows(db.user_roles) :
                    ~(x.user_id = user_id /\ x.role_id = role_id)}
    IN  [db EXCEPT !.user_roles = [x \in keep |-> CopiesIn(x, db.user_roles)]]

(* The store without the link rows of (role_id, permission_id) *)
without_link(db, role_id, permission_id) ==
    LET keep == {x \in Rows(db.role_permissions) :
                    ~(x.role_id = role_id /\ x.permission_id = permission_id)}
    IN  [db EXCEPT !.role_permissions =
                      [x \in keep |-> CopiesIn(x, db.role_permissions)]]

(* The (user, pair)s that a user holds on db and would not hold on less *)
held_only_through(db, less, t) ==
    {x \in UserIds \X QueryPairs :
        x[2] \in held(db, x[1], t) \ held(less, x[1], t)}

InitConcurrent ==
    /\ users = [u \in UserIds |->
                  IF u = "u1" THEN UserRow("o1", TRUE) ELSE UserRow("o2", TRUE)]
    /\ roles = BootRoles
    /\ permissions = seed_permissions(EmptyDB, TRUE).permissions
    /\ role_permissions =
          SetToBag({RolePermissionRow("r2", "knowledge_base.delete")})
    /\ user_roles = SetToBag({UserRoleRow("u1", "r1", "u1", 0, NoExpiry, TRUE),
                              UserRoleRow("u1", "r2", "u1", 0, NoExpiry, TRUE)})
    /\ now = 0
    /\ nops = 1
    /\ resp = NoResponse
    /\ AuditIdle
    /\ CallsIdle
    /\ UiIdle

(* has_permission = rbac.check_permission(...) is called *)
StartCheck(c, u, pair) ==
    /\ calls[c].pc = "idle"
    /\ calls' = [calls EXCEPT ![c] =
                   [pc |-> "started", kind |-> "check", user_id |-> u,
                    pair |-> pair, result |-> FALSE,
                    could |-> {call_value(DB, "check", u, pair, now)},
                    must_deny |-> <<u, pair>> \in barred]]
    /\ UNCHANGED <<now, nops, resp, barred>>
    /\ UNCHANGED storeVars
    /\ UNCHANGED auditVars
    /\ UNCHANGED uiVars

(* rbac.get_user_permissions(...) is called *)
StartList(c, u) ==
    /\ calls[c].pc = "idle"
    /\ calls' = [calls EXCEPT ![c] =
                   [pc |-> "started", kind |-> "list", user_id |-> u,
                    pair |-> <<>>, result |-> {},
                    could |-> {call_value(DB, "list", u, <<>>, now)},
                    must_deny |-> FALSE]]
    /\ UNCHANGED <<now, nops, resp, barred>>
    /\ UNCHANGED storeVars
    /\ UNCHANGED auditVars
    /\ UNCHANGED uiVars

(* The rows of get_user_permissions for the roles in role_ids *)
permissions_of_roles(db, role_ids) ==
    {p \in Rows(db.permissions) :
        \E rp \in Rows(db.role_permissions) :
            rp.permission_id = p.name /\ rp.role_id \in role_ids}

(* A variant of QueryCall that reads table by table, in two statements: first
   the roles the user's effective grants name, later the permissions linked
   to those roles *)
QueryCall_table_by_table(c) ==
    /\ calls[c].pc \in {"started", "roles_read"}
    /\ LET call == calls[c]
           role_ids == {ur.role_id : ur \in
                          {x \in Rows(user_roles) :
                              /\ x.user_id = call.user_id
                              /\ users[call.user_id].is_active
                              /\ grant_effective(x, now)}}
           linked == permissions_of_roles(DB, call.role_ids)
       IN  calls' = [calls EXCEPT ![c] =
                       IF call.pc = "started"
                       THEN [pc |-> "roles_read", kind |-> call.kind,
                             user_id |-> call.user_id, pair |-> call.pair,
                             result |-> call.result, could |-> call.could,
                             must_deny |-> call.must_deny,
                             role_ids |-> role_ids]
                       ELSE [pc |-> "queried", kind |-> call.kind,
                             user_id |-> call.user_id, pair |-> call.pair,
                             result |-> IF call.kind = "check"
                                        THEN \E p \in linked :
                                               /\ p.resource = call.pair[1]
                                               /\ p.action = call.pair[2]
                                        ELSE linked,
                             could |-> call.could,
                             must_deny |-> call.must_deny]]
    /\ UNCHANGED <<now, nops, resp, barred>>
    /\ UNCHANGED storeVars
    /\ UNCHANGED auditVars
    /\ UNCHANGED uiVars

(* A variant of QueryCall that runs its statement only while no other call is
   between its query and its return *)
QueryCall_one_at_a_time(c) ==
    /\ calls[c].pc = "started"
    /\ \A d \in Clients \ {c} : calls[d].pc # "queried"
    /\ calls' = [calls EXCEPT ![c] =
                   [@ EXCEPT !.pc = "queried",
                             !.result = call_value(DB, calls[c].kind,
                                                   calls[c].user_id,
                                                   calls[c].pair, now)]]
    /\ UNCHANGED <<now, nops, resp, barred>>
    /\ UNCHANGED storeVars
    /\ UNCHANGED auditVars
    /\ UNCHANGED uiVars

(* result = db.execute(text(...)): the call's one statement reads the store *)
QueryCall(c) ==
    /\ calls[c].pc = "started"
    /\ calls' = [calls EXCEPT ![c] =
                   [@ EXCEPT !.pc = "queried",
                             !.result = call_value(DB, calls[c].kind,
                                                   calls[c].user_id,
                                                   calls[c].pair, now)]]
    /\ UNCHANGED <<now, nops, resp, barred>>
    /\ UNCHANGED storeVars
    /\ UNCHANGED auditVars
    /\ UNCHANGED uiVars

(* The call returns: the gate raises the 403 or lets the request through; the
   listing hands back its rows *)
ReturnCall(c) ==
    /\ calls[c].pc = "queried"
    /\ calls' = [calls EXCEPT ![c] = [@ EXCEPT !.pc = "returned"]]
    /\ resp' = IF calls[c].kind = "list" THEN Listed(calls[c].result)
               ELSE IF calls[c].result THEN Allow
               ELSE Forbidden(<<perm_string(calls[c].pair[1], calls[c].pair[2])>>)
    /\ UNCHANGED <<now, nops, barred>>
    /\ UNCHANGED storeVars
    /\ UNCHANGED auditVars
    /\ UNCHANGED uiVars

(* assign_role commits while calls are in progress *)
AssignRoleMeanwhile(u, r, by, exp) ==
    LET res == assign_role(DB, u, r, by, exp, now, TRUE)
        after == [DB EXCEPT !.user_roles = res.user_roles]
    IN  /\ nops < MaxOps
        /\ user_roles' = res.user_roles
        /\ nops' = nops + 1
        /\ calls' = calls_meeting(after)
        /\ barred' = {x \in barred : x[2] \notin held(after, x[1], now)}
        /\ UNCHANGED <<users, roles, permissions, role_permissions, now, resp>>
        /\ UNCHANGED auditVars
        /\ UNCHANGED uiVars

(* revokeRole commits and returns while calls are in progress *)
RevokeRoleMeanwhile(u, r) ==
    LET res == revokeRole(DB, u, r, TRUE)
        after == [DB EXCEPT !.user_roles = res.user_roles]
    IN  /\ nops < MaxOps
        /\ user_roles' = res.user_roles
        /\ nops' = nops + 1
        /\ calls' = calls_meeting(after)
        /\ barred' = IF res.ok
                     THEN barred \cup held_only_through(DB, without_grant(DB, u, r), now)
                     ELSE barred
        /\ UNCHANGED <<users, roles, permissions, role_permissions, now, resp>>
        /\ UNCHANGED auditVars
        /\ UNCHANGED uiVars

(* attachPermission commits while calls are in progress *)
AttachPermissionMeanwhile(r, p) ==
    LET res == attachPermission(DB, r, p, TRUE)
        after == [DB EXCEPT !.role_permissions = res.role_permissions]
    IN  /\ nops < MaxOps
        /\ role_permissions' = res.role_permissions
        /\ nops' = nops + 1
        /\ calls' = calls_meeting(after)
        /\ barred' = {x \in barred : x[2] \notin held(after, x[1], now)}
        /\ UNCHANGED <<users, roles, permissions, user_roles, now, resp>>
        /\ UNCHANGED auditVars
        /\ UNCHANGED uiVars

(* detachPermission commits and returns while calls are in progress *)
DetachPermissionMeanwhile(r, p) ==
    LET res == detachPermission(DB, r, p, TRUE)
        after == [DB EXCEPT !.role_permissions = res.role_permissions]
    IN  /\ nops < MaxOps
        /\ role_permissions' = res.role_permissions
        /\ nops' = nops + 1
        /\ calls' = calls_meeting(after)
        /\ barred' = IF res.ok
                     THEN barred \cup held_only_through(DB, without_link(DB, r, p), now)
                     ELSE barred
        /\ UNCHANGED <<users, roles, permissions, user_roles, now, resp>>
        /\ UNCHANGED auditVars
        /\ UNCHANGED uiVars

NextConcurrent ==
    \/ \E c \in Clients, u \in CallUsers, pair \in QueryPairs :
          StartCheck(c, u, pair)
    \/ \E c \in Clients, u \in CallUsers : StartList(c, u)
    \/ \E c \in Clients : QueryCall(c)
    \/ \E c \in Clients : ReturnCall(c)
    \/ \E u \in CallUsers, r \in RoleIdsOf(DB), by \in Assigners :
          AssignRoleMeanwhile(u, r, by, NoExpiry)
    \/ \E u \in CallUsers, r \in RoleIdsOf(DB) : RevokeRoleMeanwhile(u, r)
    \/ \E r \in RoleIdsOf(DB), p \in AttachPerms : AttachPermissionMeanwhile(r, p)
    \/ \E r \in RoleIdsOf(DB), p \in AttachPerms : DetachPermissionMeanwhile(r, p)

(* Read calls interleaved with administration writes *)
SpecConcurrent == InitConcurrent /\ [][NextConcurrent]_vars

-----------------------------------------------------------------------------
(* The any-of gate called by u1 while roles are granted to u1 and revoked and
   the clock advances past the expiry of u1's first grant.  The decorators
   pass current_user.organization_id as the organization. *)

InitAnyGate ==
    /\ users = [u \in UserIds |->
                  IF u = "u1" THEN UserRow("o1", TRUE) ELSE UserRow("o2", TRUE)]
    /\ roles = BootRoles
    /\ permissions = seed_permissions(EmptyDB, TRUE).permissions
    /\ role_permissions =
          SetToBag({RolePermissionRow("r1", "knowledge_base.delete"),
                    RolePermissionRow("r2", "user.update")})
    /\ user_roles = SetToBag({UserRoleRow("u1", "r2", "u1", 0, 1, TRUE)})
    /\ now = 0
    /\ nops = 1
    /\ resp = NoResponse
    /\ AuditIdle
    /\ CallsIdle
    /\ UiIdle

NextAnyGate ==
    \/ \E c \in GateClients, u \in CallUsers, perms \in PermLists :
          RequireAnyPermission(c, u, perms, users[u].organization_id)
    \/ \E c \in GateClients, up \in BOOLEAN : CheckNextPermission(c, up)
    \/ \E u \in CallUsers, r \in RoleIdsOf(DB), by \in Assigners :
          AssignRoleMeanwhile(u, r, by, NoExpiry)
    \/ \E u \in CallUsers, r \in RoleIdsOf(DB) : RevokeRoleMeanwhile(u, r)
    \/ Tick

SpecAnyGate == InitAnyGate /\ [][NextAnyGate]_vars

-----------------------------------------------------------------------------
(* Every read of the checker and of the gates, called for u1 while the only
   grant u1 holds runs out *)

InitReads ==
    /\ users = [u \in UserIds |->
                  IF u = "u1" THEN UserRow("o1", TRUE) ELSE UserRow("o2", TRUE)]
    /\ roles = BootRoles
    /\ permissions = seed_permissions(EmptyDB, TRUE).permissions
    /\ role_permissions = SetToBag({RolePermissionRow("r2", "user.update")})
    /\ user_roles = SetToBag({UserRoleRow("u1", "r2", "u1", 0, 1, TRUE)})
    /\ now = 0
    /\ nops = 0
    /\ resp = NoResponse
    /\ AuditIdle
    /\ CallsIdle
    /\ UiIdle

NextReads ==
    \/ \E u \in CallUsers, pair \in QueryPairs, org \in OrgArgs, up \in BOOLEAN :
          RequirePermission(u, pair, org, up)
    \/ \E c \in GateClients, u \in CallUsers, perms \in PermLists, org \in OrgArgs :
          RequireAnyPermission(c, u, perms, org)
    \/ \E c \in GateClients, up \in BOOLEAN : CheckNextPermission(c, up)
    \/ \E u \in CallUsers, pair \in QueryPairs, org \in OrgArgs, up \in BOOLEAN :
          CheckPermission(u, pair, org, up)
    \/ \E u \in CallUsers, up \in BOOLEAN : GetUserPermissions(u, up)
    \/ Tick

SpecReads == InitReads /\ [][NextReads]_vars

-----------------------------------------------------------------------------
(* Gate calls in progress while the audit recorder queues, flushes and
   retries *)

(* The store of InitGateAudit; the recorder holds two records of producer p2
   that are not flushed yet *)
InitCallsAudit ==
    /\ users = [u \in UserIds |->
                  IF u = "u1" THEN UserRow("o1", TRUE) ELSE UserRow("o2", TRUE)]
    /\ roles = BootRoles
    /\ permissions = seed_permissions(EmptyDB, TRUE).permissions
    /\ role_permissions =
          SetToBag({RolePermissionRow("r2", "knowledge_base.delete")})
    /\ user_roles = SetToBag({UserRoleRow("u1", "r2", "u1", 0, 1, TRUE)})
    /\ now = 0
    /\ nops = 2
    /\ resp = NoResponse
    /\ auditQueue = <<AuditRecord("p2", 1), AuditRecord("p2", 2)>>
    /\ audit_logs = <<>>
    /\ pending = [p \in Producers |-> NoRecord]
    /\ submitted = {AuditRecord("p2", 1), AuditRecord("p2", 2)}
    /\ attempts = 0
    /\ CallsIdle
    /\ UiIdle

NextCallsAudit ==
    \/ \E c \in Clients, u \in UserIds, pair \in QueryPairs :
          StartCheck(c, u, pair)
    \/ \E c \in Clients : QueryCall(c)
    \/ \E c \in Clients : ReturnCall(c)
    \/ Record("p1")
    \/ Enqueue("p1")
    \/ FlushWritten
    \/ FlushFailed
    \/ FlushUnacknowledged

SpecCallsAudit == InitCallsAudit /\ [][NextCallsAudit]_vars

(* One attempt of the flusher on the head record, whatever its outcome *)
Flush == FlushWritten \/ FlushFailed \/ FlushUnacknowledged

(* The recorder with a flusher that keeps attempting while the queue holds a
   record; the store is reachable again after at most MaxAttempts failed
   attempts on a record *)
NextAuditFair ==
    \/ Record("p1")
    \/ Enqueue("p1")
    \/ FlushWritten
    \/ FlushFailed
    \/ FlushUnacknowledged

SpecAuditFair == InitCallsAudit /\ [][NextAuditFair]_vars /\ WF_vars(Flush)

-----------------------------------------------------------------------------
(* Every operation of the engine next to the flusher: the gate, role and
   permission administration, the seeding script, and the flush of two queued
   audit records with its retries *)

InitEngine ==
    /\ users = [u \in UserIds |->
                  IF u = "u1" THEN UserRow("o1", TRUE) ELSE UserRow("o2", TRUE)]
    /\ roles = SetToBag({RoleRow("r1", "Super Admin", NULL, TRUE)})
    /\ permissions = seed_permissions(EmptyDB, TRUE).permissions
    /\ role_permissions =
          SetToBag({RolePermissionRow("r1", "knowledge_base.delete")})
    /\ user_roles = SetToBag({UserRoleRow("u1", "r1", "u1", 0, NoExpiry, TRUE)})
    /\ now = 0
    /\ nops = 2
    /\ resp = NoResponse
    /\ auditQueue = <<AuditRecord("p1", 1), AuditRecord("p2", 1)>>
    /\ audit_logs = <<>>
    /\ pending = [p \in Producers |-> NoRecord]
    /\ submitted = {AuditRecord("p1", 1), AuditRecord("p2", 1)}
    /\ attempts = 0
    /\ CallsIdle
    /\ UiIdle

NextEngine ==
    \/ \E pair \in QueryPairs, up \in BOOLEAN :
          RequirePermission("u1", pair, NULL, up)
    \/ \E u \in UserIds, r \in RoleIdsOf(DB), by \in Assigners, up \in BOOLEAN :
          AssignRole(u, r, by, NoExpiry, up)
    \/ \E u \in UserIds, r \in RoleIdsOf(DB), up \in BOOLEAN :
          RevokeRole(u, r, up)
    \/ \E r \in RoleIdsOf(DB), p \in AttachPerms, up \in BOOLEAN :
          AttachPermission(r, p, up)
    \/ \E r \in RoleIdsOf(DB), p \in AttachPerms, up \in BOOLEAN :
          DetachPermission(r, p, up)
    \/ \E row \in PermInputs, up \in BOOLEAN : CreatePermission(row, up)
    \/ \E name \in RoleNames, up \in BOOLEAN : CreateRole(name, "o1", FALSE, up)
    \/ \E up \in BOOLEAN : SeedPermissions(up)
    \/ FlushWritten
    \/ FlushFailed
    \/ FlushUnacknowledged

SpecEngine == InitEngine /\ [][NextEngine]_vars

-----------------------------------------------------------------------------
(* HomeUpload.jsx: events of the upload card *)

StoreIdle ==
    /\ users = [u \in UserIds |-> UserRow("o1", TRUE)]
    /\ roles = EmptyBag
    /\ permissions = EmptyBag
    /\ user_roles = EmptyBag
    /\ role_permissions = EmptyBag
    /\ now = 0
    /\ nops = 0
    /\ resp = NoResponse

InitHomeUpload ==
    /\ StoreIdle
    /\ AuditIdle
    /\ CallsIdle
    /\ UiIdle

UiFrame ==
    /\ UNCHANGED <<now, nops, resp>>
    /\ UNCHANGED storeVars
    /\ UNCHANGED auditVars
    /\ UNCHANGED callVars

(* onChange of the file input, disabled={uploading}: a file was chosen, or
   the event carries no file *)
HandleFileChange(selected) ==
    /\ ~homeUpload.uploading
    /\ homeUpload' = handleFileChange(homeUpload, selected)
    /\ UNCHANGED orgManager
    /\ UiFrame

(* onDrop of the drop zone, which is not disabled while uploading *)
HandleDrop(dropped) ==
    /\ homeUpload' = handleDrop(homeUpload, dropped)
    /\ UNCHANGED orgManager
    /\ UiFrame

(* onSubmit of the form; the submit button, the only control that submits
   it, is disabled={uploading || !file}, whatever earlier calls still await *)
HandleUpload ==
    /\ ~homeUpload.uploading
    /\ homeUpload.file
    /\ Len(homeUpload.calls) < MaxUploads
    /\ homeUpload' = handleUpload(homeUpload)
    /\ UNCHANGED orgManager
    /\ UiFrame

(* 80 ms have passed for timer i *)
IntervalTick(i) ==
    /\ i \in 1..Len(homeUpload.timers)
    /\ homeUpload.timers[i].running
    /\ homeUpload.timers[i].prog < 10 * MaxTicks
    /\ homeUpload' = interval_tick(homeUpload, i)
    /\ UNCHANGED orgManager
    /\ UiFrame

(* the upload response of call i arrives, OK or not *)
FetchResolved(i, ok) ==
    /\ i \in 1..Len(homeUpload.calls)
    /\ homeUpload.calls[i] = "fetch"
    /\ homeUpload' = fetch_resolved(homeUpload, i, ok)
    /\ UNCHANGED orgManager
    /\ UiFrame

(* fetch of call i throws a network error *)
FetchRejected(i) ==
    /\ i \in 1..Len(homeUpload.calls)
    /\ homeUpload.calls[i] = "fetch"
    /\ homeUpload' = upload_caught(homeUpload, i)
    /\ UNCHANGED orgManager
    /\ UiFrame

JsonResolved(i) ==
    /\ i \in 1..Len(homeUpload.calls)
    /\ homeUpload.calls[i] = "json"
    /\ homeUpload' = json_resolved(homeUpload, i)
    /\ UNCHANGED orgManager
    /\ UiFrame

(* the body of the OK response of call i is not JSON *)
JsonRejected(i) ==
    /\ i \in 1..Len(homeUpload.calls)
    /\ homeUpload.calls[i] = "json"
    /\ homeUpload' = upload_caught(homeUpload, i)
    /\ UNCHANGED orgManager
    /\ UiFrame

NextHomeUpload ==
    \/ \E selected \in BOOLEAN : HandleFileChange(selected)
    \/ \E dropped \in BOOLEAN : HandleDrop(dropped)
    \/ HandleUpload
    \/ \E i \in 1..MaxUploads : IntervalTick(i)
    \/ \E i \in 1..MaxUploads, ok \in BOOLEAN : FetchResolved(i, ok)
    \/ \E i \in 1..MaxUploads : FetchRejected(i)
    \/ \E i \in 1..MaxUploads : JsonResolved(i)
    \/ \E i \in 1..MaxUploads : JsonRejected(i)

SpecHomeUpload == InitHomeUpload /\ [][NextHomeUpload]_vars

-----------------------------------------------------------------------------
(* OrgManager.jsx: the organization list of the system administrator.  An
   organization stands as its id.  A request in flight carries the `orgs`
   value its handler closed over when it was called; the server applies a
   request and answers it in one step. *)

MaxRequests == 2
MaxCreates == 2

(* the elements of a sequence *)
RangeOf(q) == {q[i] : i \in 1..Len(q)}

(* orgs.filter(o => o.id !== id) *)
without_org(orgs, id) == SelectSeq(orgs, LAMBDA o : o # id)

(* what the component returns: null unless isSystemAdmin, else the list *)
displayed(s) == IF s.isSystemAdmin THEN [shown |-> TRUE, orgs |-> s.orgs]
                ELSE [shown |-> FALSE, orgs |-> <<>>]

(* first render and the effect: axios.get only if isSystemAdmin *)
mount(s, isSystemAdmin) ==
    [s EXCEPT !.mounted = TRUE, !.isSystemAdmin = isSystemAdmin,
              !.list = IF isSystemAdmin THEN "pending" ELSE "none"]

(* .then(res => setOrgs(res.data)) *)
list_resolved(s) ==
    [s EXCEPT !.orgs = s.server, !.fetched = s.server, !.list = "done"]

(* handleCreate / handleDelete up to their await: the request is sent and
   the continuation keeps the orgs of this render *)
send_request(s, kind, id) ==
    [s EXCEPT !.requests = Append(@, [kind |-> kind, id |-> id,
                                       orgs |-> s.orgs]),
              !.creates = IF kind = "create" THEN @ + 1 ELSE @,
              !.early = @ \/ s.list # "done"]

drop_request(requests, i) ==
    SubSeq(requests, 1, i - 1) \o SubSeq(requests, i + 1, Len(requests))

(* the server stores the organization under the next id; then
   setOrgs([...orgs, res.data]) with the orgs of the calling render *)
create_resolved(s, i) ==
    LET id == s.next_id
    IN  [s EXCEPT !.server = Append(@, id), !.next_id = @ + 1,
                  !.orgs = Append(s.requests[i].orgs, id),
                  !.created = @ \cup {id},
                  !.requests = drop_request(@, i)]

(* the server removes the organization; then
   setOrgs(orgs.filter(o => o.id !== id)) with the orgs of the calling
   render *)
delete_resolved(s, i) ==
    LET id == s.requests[i].id
    IN  [s EXCEPT !.server = without_org(@, id),
                  !.orgs = without_org(s.requests[i].orgs, id),
                  !.deleted = @ \cup {id},
                  !.requests = drop_request(@, i)]

(* axios.delete rejects (the organization is gone): nothing is set *)
delete_rejected(s, i) == [s EXCEPT !.requests = drop_request(@, i)]

Mount(isSystemAdmin) ==
    /\ ~orgManager.mounted
    /\ orgManager' = mount(orgManager, isSystemAdmin)
    /\ UNCHANGED homeUpload
    /\ UiFrame

ListResolved ==
    /\ orgManager.list = "pending"
    /\ orgManager' = list_resolved(orgManager)
    /\ UNCHANGED homeUpload
    /\ UiFrame

(* onSubmit of the form, which is rendered only for the administrator *)
HandleCreate ==
    /\ orgManager.mounted
    /\ displayed(orgManager).shown
    /\ Len(orgManager.requests) < MaxRequests
    /\ orgManager.creates < MaxCreates
    /\ orgManager' = send_request(orgManager, "create", 0)
    /\ UNCHANGED homeUpload
    /\ UiFrame

(* onClick of the Delete button of a listed organization *)
HandleDelete(id) ==
    /\ orgManager.mounted
    /\ displayed(orgManager).shown
    /\ id \in RangeOf(displayed(orgManager).orgs)
    /\ Len(orgManager.requests) < MaxRequests
    /\ orgManager' = send_request(orgManager, "delete", id)
    /\ UNCHANGED homeUpload
    /\ UiFrame

CreateResolved(i) ==
    /\ i \in 1..Len(orgManager.requests)
    /\ orgManager.requests[i].kind = "create"
    /\ orgManager' = create_resolved(orgManager, i)
    /\ UNCHANGED homeUpload
    /\ UiFrame

DeleteResolved(i) ==
    /\ i \in 1..Len(orgManager.requests)
    /\ orgManager.requests[i].kind = "delete"
    /\ orgManager.requests[i].id \in RangeOf(orgManager.server)
    /\ orgManager' = delete_resolved(orgManager, i)
    /\ UNCHANGED homeUpload
    /\ UiFrame

DeleteRejected(i) ==
    /\ i \in 1..Len(orgManager.requests)
    /\ orgManager.requests[i].kind = "delete"
    /\ orgManager.requests[i].id \notin RangeOf(orgManager.server)
    /\ orgManager' = delete_rejected(orgManager, i)
    /\ UNCHANGED homeUpload
    /\ UiFrame

OrgKeys == 1..(Len(ServerOrgs) + MaxCreates)

NextOrgManager ==
    \/ \E isSystemAdmin \in BOOLEAN : Mount(isSystemAdmin)
    \/ ListResolved
    \/ HandleCreate
    \/ \E id \in OrgKeys : HandleDelete(id)
    \/ \E i \in 1..MaxRequests : CreateResolved(i)
    \/ \E i \in 1..MaxRequests : DeleteResolved(i)
    \/ \E i \in 1..MaxRequests : DeleteRejected(i)

SpecOrgManager == InitHomeUpload /\ [][NextOrgManager]_vars

-----------------------------------------------------------------------------
(* Properties.  decide(user, resource, action, orgContext) is the permission
   gate, require_permission, on a reachable store. *)

decide(u, resource, action, org) ==
    require_permission(DB, u, resource, action, org, now, TRUE)

(* A grant is effective iff isActive and expiresAt is null or in the future *)
Effective(ur) ==
    ur.is_active /\ (ur.expires_at = NoExpiry \/ ur.expires_at > now)

RoleOf(ur) == CHOOSE r \in Rows(roles) : r.id = ur.role_id

(* The permissions attached to the role of id role_id *)
Attached(role_id) ==
    {p \in Rows(permissions) :
        \E rp \in Rows(role_permissions) :
            rp.role_id = role_id /\ rp.permission_id = p.name}

GrantsOf(u) == {ur \in Rows(user_roles) : ur.user_id = u}

(* C1 as stated: for every user U, every effective grant of a role R to U and
   every permission P attached to R, decide(U, P.resource, P.action, U's
   organization) allows. *)
C1_EffectiveGrantAllows_AnyUser ==
    \A u \in UserIds : \A ur \in GrantsOf(u) : \A p \in Attached(ur.role_id) :
        Effective(ur) =>
            decide(u, p.resource, p.action, users[u].organization_id) = Allow

(* C1 amended: for every user U whose isActive flag is true, every effective
   grant of a role R to U and every permission P attached to R,
   decide(U, P.resource, P.action, U's organization) allows; one effective
   role granting P is sufficient. *)
C1_EffectiveGrantAllows ==
    \A u \in UserIds : \A ur \in GrantsOf(u) : \A p \in Attached(ur.role_id) :
        (users[u].is_active /\ Effective(ur)) =>
            decide(u, p.resource, p.action, users[u].organization_id) = Allow

(* An active user holds two effective grants, one of them with an expiry still
   in the future; P is attached to one of the two roles only, and decide
   allows P in the user's organization. *)
C1_Witness ==
    \E u \in UserIds : \E g1, g2 \in GrantsOf(u) : \E p \in Attached(g1.role_id) :
        /\ users[u].is_active
        /\ g1.role_id # g2.role_id
        /\ Effective(g1) /\ Effective(g2)
        /\ (g1.expires_at # NoExpiry \/ g2.expires_at # NoExpiry)
        /\ p \notin Attached(g2.role_id)
        /\ decide(u, p.resource, p.action, users[u].organization_id) = Allow

(* The grants of U that reach a permission of that resource and action *)
GrantsReaching(u, resource, action) ==
    {ur \in GrantsOf(u) :
        \E p \in Attached(ur.role_id) :
            p.resource = resource /\ p.action = action}

PairsOf(ps) == {<<p.resource, p.action>> : p \in ps}

(* The permissions some RolePermissionLink refers to *)
LinkedPermissions ==
    {p \in Rows(permissions) :
        \E rp \in Rows(role_permissions) : rp.permission_id = p.name}

(* C2: if every grant through which U reaches P is revoked (isActive = false)
   or expired (expiresAt earlier than now), decide(U, P.resource, P.action,
   org) denies for every org, the RolePermissionLink rows still being there. *)
C2_RevokedOrExpiredDenies ==
    \A u \in UserIds : \A pair \in QueryPairs \cup PairsOf(LinkedPermissions) :
        (\A ur \in GrantsReaching(u, pair[1], pair[2]) :
            \/ ~ur.is_active
            \/ (ur.expires_at # NoExpiry /\ ur.expires_at < now))
        => \A org \in OrgArgs : decide(u, pair[1], pair[2], org).outcome = "deny"

(* An active user reaches P only through a grant that is still isActive = true
   (no revoke was made) and whose expiresAt has passed; the link is there and
   decide denies. *)
C2_Witness ==
    \E u \in UserIds : \E pair \in QueryPairs :
        /\ users[u].is_active
        /\ GrantsReaching(u, pair[1], pair[2]) # {}
        /\ \A ur \in GrantsReaching(u, pair[1], pair[2]) :
              ur.is_active /\ ur.expires_at # NoExpiry /\ ur.expires_at < now
        /\ \A org \in OrgArgs : decide(u, pair[1], pair[2], org).outcome = "deny"

(* C3 as stated: if U holds an effective grant of a role R with
   isSystemRole = true and P is attached to R, decide(U, P.resource, P.action,
   org) allows for every org. *)
C3_SystemRoleAllowsAnyOrg_AnyUser ==
    \A u \in UserIds : \A ur \in GrantsOf(u) : \A p \in Attached(ur.role_id) :
        (Effective(ur) /\ RoleOf(ur).is_system_role) =>
            \A org \in OrgArgs : decide(u, p.resource, p.action, org) = Allow

(* C3 amended: if U's isActive flag is true, U holds an effective grant of a
   role R with isSystemRole = true and P is attached to R, then
   decide(U, P.resource, P.action, org) allows for every value of org,
   organizations other than U's own included. *)
C3_SystemRoleAllowsAnyOrg ==
    \A u \in UserIds : \A ur \in GrantsOf(u) : \A p \in Attached(ur.role_id) :
        (users[u].is_active /\ Effective(ur) /\ RoleOf(ur).is_system_role) =>
            \A org \in OrgArgs : decide(u, p.resource, p.action, org) = Allow

(* An active user of one organization holds an effective system-role grant
   and is allowed P in another organization. *)
C3_Witness ==
    \E u \in UserIds : \E ur \in GrantsOf(u) : \E p \in Attached(ur.role_id) :
        \E org \in OrgIds :
            /\ users[u].is_active
            /\ Effective(ur) /\ RoleOf(ur).is_system_role
            /\ org # users[u].organization_id
            /\ decide(u, p.resource, p.action, org) = Allow

(* C4: for a user U of organization O1 whose effective roles are all scoped to
   O1 (none is a system role), decide(U, resource, action, O2) with O2 # O1
   denies with reason ORG_MISMATCH, also when one of U's roles has the
   permission attached. *)
C4_CrossTenantDeniedWithOrgMismatch ==
    \A u \in UserIds : \A pair \in QueryPairs : \A o2 \in OrgIds :
        (/\ users[u].is_active
         /\ users[u].organization_id \in OrgIds \ {o2}
         /\ \A ur \in GrantsOf(u) :
               Effective(ur) =>
                  /\ ~RoleOf(ur).is_system_role
                  /\ RoleOf(ur).organization_id = users[u].organization_id
         /\ \E ur \in GrantsReaching(u, pair[1], pair[2]) : Effective(ur))
        => decide(u, pair[1], pair[2], o2) = Deny("ORG_MISMATCH")

(* C5: whenever the store is unreachable during decide, decide returns a
   structured deny with reason STORE_UNAVAILABLE; it never allows and never
   lets the fault out as an exception. *)
C5_FailClosedStructuredDeny ==
    [][\A u \in UserIds, pair \in QueryPairs, org \in OrgArgs :
          RequirePermission(u, pair, org, FALSE)
              => resp' = Deny("STORE_UNAVAILABLE")]_vars

(* C6: every decide call, allow or deny, adds exactly one AuditRecord, and the
   record is in the audit queue when decide returns. *)
C6_DecideQueuesOneAuditRecord ==
    [][(\E u \in UserIds, pair \in QueryPairs, org \in OrgArgs :
           RequirePermission(u, pair, org, TRUE))
          => /\ Len(auditQueue') = Len(auditQueue) + 1
             /\ SubSeq(auditQueue', 1, Len(auditQueue)) = auditQueue]_vars

(* C7: the audit queue never holds more than its capacity and no record is
   dropped: every record a producer handed to the recorder is still with the
   blocked producer, in the queue, or written to audit_logs. *)
C7_QueueBoundedNothingDropped ==
    /\ Len(auditQueue) <= QueueCapacity
    /\ \A rec \in submitted :
          \/ \E p \in Producers : pending[p] = rec
          \/ rec \in RangeOf(auditQueue)
          \/ rec \in RangeOf(audit_logs)

(* The queue is full, a producer is blocked with its record (its hand-over is
   not enabled), and an earlier record has been flushed to audit_logs. *)
C7_Witness ==
    /\ Len(auditQueue) = QueueCapacity
    /\ \E p \in Producers : pending[p] # NoRecord /\ ~ENABLED Enqueue(p)
    /\ audit_logs # <<>>

(* The store with the user_roles table replaced *)
WithUserRoles(db, tbl) == [db EXCEPT !.user_roles = tbl]
WithRolePermissions(db, tbl) == [db EXCEPT !.role_permissions = tbl]

(* The permissions attached to role r and to no other role *)
ExclusiveTo(r) ==
    {p \in Attached(r) : \A other \in RoleIdsOf(DB) \ {r} : p \notin Attached(other)}

(* C8: from any state in which U has no grant of R, grantRole(U, R) followed
   at once by revokeRole(U, R) leaves hasPermission false for every permission
   exclusive to R, and the Resolver's output for U as it was before the grant. *)
C8_GrantThenRevokeIsNoGrant ==
    \A u \in UserIds, r \in RoleIdsOf(DB), by \in Assigners, exp \in Expiries :
        (\A ur \in GrantsOf(u) : ur.role_id # r) =>
            LET granted == assign_role(DB, u, r, by, exp, now, TRUE)
                db1 == WithUserRoles(DB, granted.user_roles)
                revoked == revokeRole(db1, u, r, TRUE)
                db2 == WithUserRoles(DB, revoked.user_roles)
            IN  /\ granted.ok /\ revoked.ok
                /\ get_user_permissions(db2, u, now)
                      = get_user_permissions(DB, u, now)
                /\ \A p \in ExclusiveTo(r), org \in OrgArgs :
                      ~check_permission(db2, u, p.resource, p.action, org, now)

(* An active user was granted a role without expiry and the grant was revoked
   before the clock moved; a permission exclusive to that role is attached,
   and the user does not have it. *)
C8_Witness ==
    \E u \in UserIds : \E ur \in GrantsOf(u) : \E p \in ExclusiveTo(ur.role_id) :
        /\ users[u].is_active
        /\ ~ur.is_active /\ ur.assigned_at = now /\ ur.expires_at = NoExpiry
        /\ p \notin get_user_permissions(DB, u, now)
        /\ \A org \in OrgArgs :
              ~check_permission(DB, u, p.resource, p.action, org, now)

(* C9: attachPermission of an attached (role, permission) is a no-op success
   and gives every user the effective permissions of attaching once;
   detachPermission of a pair that is not attached is a no-op success; no
   (roleId, permissionId) has more than one RolePermissionLink. *)
C9_AttachDetachIdempotent ==
    /\ \A rp \in Rows(role_permissions) : CopiesIn(rp, role_permissions) = 1
    /\ \A r \in RoleIdsOf(DB), p \in AttachPerms :
          LET once == attachPermission(DB, r, p, TRUE)
              db1 == WithRolePermissions(DB, once.role_permissions)
              twice == attachPermission(db1, r, p, TRUE)
              db2 == WithRolePermissions(DB, twice.role_permissions)
              off == detachPermission(DB, r, p, TRUE)
          IN  /\ once.ok /\ twice.ok
              /\ RolePermissionRow(r, p) \in Rows(once.role_permissions)
              /\ twice.role_permissions = once.role_permissions
              /\ \A rp \in Rows(twice.role_permissions) :
                    CopiesIn(rp, twice.role_permissions) = 1
              /\ \A u \in UserIds :
                    get_user_permissions(db2, u, now)
                        = get_user_permissions(db1, u, now)
              /\ off.ok
              /\ (RolePermissionRow(r, p) \notin Rows(role_permissions)
                    => off.role_permissions = role_permissions)

(* One pair is attached and, through it, a user holds the permission;
   attaching the pair again leaves the links as they are, and another pair is
   not attached, for which detaching changes nothing. *)
C9_Witness ==
    \E r \in RoleIdsOf(DB), p, q \in AttachPerms :
        /\ RolePermissionRow(r, p) \in Rows(role_permissions)
        /\ RolePermissionRow(r, q) \notin Rows(role_permissions)
        /\ attachPermission(DB, r, p, TRUE).role_permissions = role_permissions
        /\ detachPermission(DB, r, q, TRUE).role_permissions = role_permissions
        /\ \E u \in UserIds : \E x \in get_user_permissions(DB, u, now) :
              x.name = p

UniqueKeys(tbl) ==
    \A a \in Rows(tbl) :
        /\ CopiesIn(a, tbl) = 1
        /\ \A b \in Rows(tbl) :
              (b.name = a.name \/ (b.resource = a.resource /\ b.action = a.action))
                  => b = a

(* C10: seedDefaultCatalog, invoked in any reachable store state, returns
   without error, creates no row whose unique key exists, and invoked again
   leaves the permission set as it was after the first invocation. *)
C10_SeedIdempotentAlwaysSucceeds ==
    LET first == seed_permissions(DB, TRUE)
        db1 == [DB EXCEPT !.permissions = first.permissions]
        second == seed_permissions(db1, TRUE)
    IN  /\ first.ok
        /\ UniqueKeys(first.permissions)
        /\ second.ok
        /\ second.permissions = first.permissions

-----------------------------------------------------------------------------
(* The fixed catalog of the specification: 22 (resource, action) pairs and
   five system roles *)
FixedCatalog ==
    {<<"system", "admin">>,
     <<"organization", "read">>, <<"organization", "update">>,
     <<"user", "create">>, <<"user", "read">>, <<"user", "update">>,
     <<"user", "delete">>, <<"user", "invite">>,
     <<"knowledge_base", "create">>, <<"knowledge_base", "read">>,
     <<"knowledge_base", "update">>, <<"knowledge_base", "delete">>,
     <<"analytics", "read">>, <<"analytics", "admin">>,
     <<"conversation", "create">>, <<"conversation", "read">>,
     <<"conversation", "update">>, <<"conversation", "delete">>,
     <<"scraping", "submit">>, <<"scraping", "admin">>,
     <<"profile", "read">>, <<"profile", "update">>}

SystemRoleNames ==
    {"Super Admin", "Organization Admin", "Team Lead", "Regular User",
     "Guest User"}

(* C11: after seedDefaultCatalog on an empty store the (resource, action)
   pairs of the permissions are exactly the 22 pairs of the fixed catalog, and
   exactly the five system roles Super Admin, Organization Admin, Team Lead,
   Regular User and Guest User exist. *)
C11_SeedGivesFixedCatalogAndRoles ==
    [][(/\ permissions = EmptyBag
        /\ roles = EmptyBag
        /\ SeedPermissions(TRUE))
          => /\ PairsOf(Rows(permissions')) = FixedCatalog
             /\ Cardinality(FixedCatalog) = 22
             /\ {r.name : r \in Rows(roles')} = SystemRoleNames
             /\ \A r \in Rows(roles') :
                   r.is_system_role /\ CopiesIn(r, roles') = 1]_vars

(* The names of the roles U holds by an effective grant *)
EffectiveRoleNames(u) ==
    {RoleOf(ur).name : ur \in {g \in GrantsOf(u) : Effective(g)}}

RoleNamed(name) == CHOOSE r \in Rows(roles) : r.name = name

(* expiresAt arguments that are null or in the future *)
FutureExpiries == {e \in Expiries : e = NoExpiry \/ e > now}

(* C12 as stated: a user U1 of organization O1 whose only effective role is
   "Regular User" is denied decide(U1, "knowledge_base", "delete", O1) with
   reason INSUFFICIENT_PERMISSION naming knowledge_base.delete; after a
   successful grantRole of "Organization Admin" (scoped to O1) to U1 the same
   call allows. *)
C12_RegularUserThenOrgAdmin_AnyUser ==
    \A u \in UserIds, by \in Assigners, exp \in FutureExpiries :
        (/\ users[u].organization_id = "o1"
         /\ EffectiveRoleNames(u) = {"Regular User"})
        => /\ decide(u, "knowledge_base", "delete", "o1")
                 = Forbidden(<<"knowledge_base.delete">>)
           /\ LET granted == assign_role(DB, u, RoleNamed("Organization Admin").id,
                                         by, exp, now, TRUE)
                  db1 == WithUserRoles(DB, granted.user_roles)
              IN  granted.ok =>
                     require_permission(db1, u, "knowledge_base", "delete",
                                        "o1", now, TRUE) = Allow

(* C12 amended: a user U1 of organization O1 whose isActive flag is true and
   whose only effective role is "Regular User" is denied
   decide(U1, "knowledge_base", "delete", O1) with reason
   INSUFFICIENT_PERMISSION naming knowledge_base.delete; after a successful
   grantRole of "Organization Admin" (scoped to O1) to U1, with expiresAt null
   or in the future, the same call allows. *)
C12_RegularUserThenOrgAdmin ==
    \A u \in UserIds, by \in Assigners, exp \in FutureExpiries :
        (/\ users[u].organization_id = "o1"
         /\ users[u].is_active
         /\ EffectiveRoleNames(u) = {"Regular User"})
        => /\ decide(u, "knowledge_base", "delete", "o1")
                 = Forbidden(<<"knowledge_base.delete">>)
           /\ LET granted == assign_role(DB, u, RoleNamed("Organization Admin").id,
                                         by, exp, now, TRUE)
                  db1 == WithUserRoles(DB, granted.user_roles)
              IN  granted.ok =>
                     require_permission(db1, u, "knowledge_base", "delete",
                                        "o1", now, TRUE) = Allow

(* An active user of o1 who held "Regular User" alone was granted
   "Organization Admin" afterwards: both grants are effective, the later one
   is the Organization Admin grant, knowledge_base.delete is attached to
   Organization Admin only, and decide allows it in o1. *)
C12_Witness ==
    \E u \in UserIds : \E g1, g2 \in GrantsOf(u) :
        /\ users[u].organization_id = "o1" /\ users[u].is_active
        /\ RoleOf(g1).name = "Regular User" /\ Effective(g1)
        /\ RoleOf(g2).name = "Organization Admin" /\ Effective(g2)
        /\ g1.assigned_at < g2.assigned_at
        /\ \A p \in Attached(g1.role_id) :
              ~(p.resource = "knowledge_base" /\ p.action = "delete")
        /\ decide(u, "knowledge_base", "delete", "o1") = Allow

(* decideAny(user, pairs, orgContext) is the any-of gate on a reachable store
   that does not change during the call *)
decideAny(u, perms, org) ==
    require_any_permission(DB, u, perms, org, now, TRUE)

(* C13: decideAny(user, pairs) returns allow if and only if decide would
   allow at least one of the listed pairs for that user in the same state,
   the store state that all statements of the call read; when it denies, its
   reason lists every pair of the list. *)
C13_DecideAnyIffSomeDecide ==
    [][\A c \in GateClients :
          (/\ calls[c].pc = "any"
           /\ calls'[c].pc = "idle"
           /\ calls[c].undisturbed
           /\ resp'.outcome # "exception")
          => resp' = IF some_allowed(DB, calls[c].user_id, calls[c].perms,
                                     calls[c].org,
                                     transaction_now(calls[c], now))
                     THEN Allow
                     ELSE Forbidden(required_perms(calls[c].perms))]_vars

(* A call through the any-of gate with two different permissions has found
   the first one missing and is about to run its second statement, which
   will allow; administration has committed a write before the call began
   and the clock has advanced since the call's transaction opened. *)
C13_Witness ==
    \E c \in GateClients :
        /\ calls[c].pc = "any"
        /\ calls[c].i = 2
        /\ calls[c].undisturbed
        /\ calls[c].perms[1] # calls[c].perms[2]
        /\ calls[c].txn_now < now
        /\ nops > 1
        /\ some_allowed(DB, calls[c].user_id, calls[c].perms, calls[c].org,
                        calls[c].txn_now)

(* listEffectivePermissions(U) is get_user_permissions on a reachable store *)
listEffectivePermissions(u) == get_user_permissions(DB, u, now)

(* The (resource, action) pairs of the catalog that decide allows U in org *)
DecideAllows(u, org) ==
    {pair \in PairsOf(Rows(permissions)) :
        decide(u, pair[1], pair[2], org).outcome = "allow"}

(* C14 as stated: in every reachable state, for every user U and every
   orgContext, listEffectivePermissions(U) is exactly the set of
   (resource, action) pairs that decide(U, resource, action, orgContext)
   allows, with one entry for a (resource, action). *)
C14_ListIsWhatDecideHonors_AnyOrg ==
    \A u \in UserIds, org \in OrgArgs :
        /\ PairsOf(listEffectivePermissions(u)) = DecideAllows(u, org)
        /\ \A a, b \in listEffectivePermissions(u) :
              (a.resource = b.resource /\ a.action = b.action) => a = b

(* C14 amended: in every reachable state and for every user U,
   listEffectivePermissions(U) is exactly the set of (resource, action) pairs
   that decide(U, resource, action, orgContext) allows when orgContext is null
   or U's own organization, with one entry for a (resource, action). *)
C14_ListIsWhatDecideHonors ==
    \A u \in UserIds : \A org \in {NULL, users[u].organization_id} :
        /\ PairsOf(listEffectivePermissions(u)) = DecideAllows(u, org)
        /\ \A a, b \in listEffectivePermissions(u) :
              (a.resource = b.resource /\ a.action = b.action) => a = b

(* A user holds two effective grants whose roles both have
   knowledge_base.read attached; the list has it once, has a permission of one
   of the two roles only, and decide allows both in the user's organization. *)
C14_Witness ==
    \E u \in UserIds : \E g1, g2 \in GrantsOf(u) :
        \E p \in Attached(g1.role_id) \cap Attached(g2.role_id) :
        \E q \in Attached(g2.role_id) \ Attached(g1.role_id) :
            /\ g1.role_id # g2.role_id
            /\ Effective(g1) /\ Effective(g2)
            /\ {p, q} \subseteq listEffectivePermissions(u)
            /\ Cardinality({x \in listEffectivePermissions(u) :
                              x.resource = p.resource /\ x.action = p.action}) = 1
            /\ {<<p.resource, p.action>>, <<q.resource, q.action>>}
                  \subseteq DecideAllows(u, users[u].organization_id)

(* C15: grantRole is an upsert on (userId, roleId): no (user, role) has more
   than one UserRoleGrant row, and grantRole for a pair whose grant exists
   (active, expired or revoked) succeeds, updates that row and sets
   isActive = true, so that a re-granted grant with expiresAt null or in the
   future is effective again. *)
C15_GrantRoleIsUpsert ==
    /\ \A a, b \in Rows(user_roles) :
          (a.user_id = b.user_id /\ a.role_id = b.role_id)
              => (a = b /\ CopiesIn(a, user_roles) = 1)
    /\ \A u \in UserIds, r \in RoleIdsOf(DB), by \in Assigners,
          exp \in Expiries :
          (\E ur \in GrantsOf(u) : ur.role_id = r) =>
              LET granted == assign_role(DB, u, r, by, exp, now, TRUE)
                  rows == {x \in Rows(granted.user_roles) :
                             x.user_id = u /\ x.role_id = r}
              IN  /\ granted.ok
                  /\ Cardinality(rows) = 1
                  /\ \A x \in rows :
                        /\ CopiesIn(x, granted.user_roles) = 1
                        /\ x.is_active
                        /\ x.expires_at = exp
                        /\ (exp = NoExpiry \/ exp > now)
                              => grant_effective(x, now)

(* U holds an effective system-admin grant *)
IsSystemAdmin(u) == check_permission(DB, u, "system", "admin", NULL, now)

(* Role r is scoped to an organization that is not U's *)
ScopedElsewhere(r, u) ==
    /\ r.organization_id # NULL
    /\ users[u].organization_id \in OrgIds \ {r.organization_id}

(* C16: grantRole(userId, roleId, assignedBy, expiresAt) fails, creating or
   changing no grant, whenever the role is organization-scoped, its
   organizationId differs from the target user's organization and the grantor
   holds no effective system-admin grant; so no user holds an effective grant
   of another organization's scoped role unless a system admin granted it. *)
C16_GrantAcrossOrgsFails ==
    /\ \A u \in UserIds, r \in Rows(roles), by \in Assigners, exp \in Expiries :
          (ScopedElsewhere(r, u) /\ ~IsSystemAdmin(by)) =>
              LET granted == assign_role(DB, u, r.id, by, exp, now, TRUE)
              IN  ~granted.ok /\ granted.user_roles = user_roles
    /\ \A u \in UserIds : \A ur \in GrantsOf(u) :
          (Effective(ur) /\ ScopedElsewhere(RoleOf(ur), u))
              => IsSystemAdmin(ur.assigned_by)

(* C17: in every reachable state no two Role rows share (name,
   organizationId), a null organizationId counting as one value, so that a
   name exists at most once globally; createRole with an existing
   (name, organizationId) fails with DUPLICATE_ROLE and leaves the store
   unchanged. *)
C17_RoleNameUniquePerOrgAndGlobally ==
    /\ \A a, b \in Rows(roles) :
          (a.name = b.name /\ a.organization_id = b.organization_id)
              => (a = b /\ CopiesIn(a, roles) = 1)
    /\ \A e \in Rows(roles), sys \in BOOLEAN :
          LET res == createRole(DB, e.name, e.organization_id, sys, TRUE)
          IN  ~res.ok /\ res.error = "DUPLICATE_ROLE" /\ res.roles = roles

(* C18: in every reachable state no two Permission rows share
   (resource, action); createPermission with an existing (resource, action)
   fails with DUPLICATE_PERMISSION and leaves the store unchanged; and no
   operation changes the name, resource or action of an existing Permission:
   every row of the table is in the table after every step. *)
C18_PermissionUniqueAndImmutable ==
    /\ [](/\ \A a, b \in Rows(permissions) :
                (a.resource = b.resource /\ a.action = b.action)
                    => (a = b /\ CopiesIn(a, permissions) = 1)
          /\ \A e \in Rows(permissions), row \in PermInputs :
                LET res == createPermission(DB, row.name, e.resource, e.action,
                                            TRUE)
                IN  /\ ~res.ok
                    /\ res.error = "DUPLICATE_PERMISSION"
                    /\ res.permissions = permissions)
    /\ [][\A e \in Rows(permissions) :
             /\ e \in Rows(permissions')
             /\ CopiesIn(e, permissions') = CopiesIn(e, permissions)]_vars

(* A permission created under a name of its own was in the table when the
   catalog was seeded: the seeding added the catalog's other rows and left
   that row as it was, and creating its (resource, action) again under the
   catalog's name is refused. *)
C18_Witness ==
    /\ PermissionRow("audit.read", "audit", "read") \in Rows(permissions)
    /\ PermissionRow("user.create", "user", "create") \in Rows(permissions)
    /\ \E row \in PermInputs :
          /\ row \notin Rows(permissions)
          /\ createPermission(DB, row.name, row.resource, row.action, TRUE).error
                = "DUPLICATE_PERMISSION"

(* A call of decide, decideAny, hasPermission or the Resolver's listing *)
ReadCall ==
    \/ \E u \in Callers, pair \in QueryPairs, org \in OrgArgs, up \in BOOLEAN :
          RequirePermission(u, pair, org, up)
    \/ \E c \in GateClients, u \in Callers, perms \in PermLists, org \in OrgArgs :
          RequireAnyPermission(c, u, perms, org)
    \/ \E c \in GateClients, up \in BOOLEAN : CheckNextPermission(c, up)
    \/ \E u \in Callers, pair \in QueryPairs, org \in OrgArgs, up \in BOOLEAN :
          CheckPermission(u, pair, org, up)
    \/ \E u \in Callers, up \in BOOLEAN : GetUserPermissions(u, up)

(* C19: decide, decideAny, hasPermission and the Resolver's listing leave the
   users, roles, permissions, user_roles and role_permissions tables as they
   were: no such call changes any state other than its response and the
   audit queue and records. *)
C19_ReadsLeaveTablesUnchanged ==
    [][\/ /\ users' = users
          /\ roles' = roles
          /\ permissions' = permissions
          /\ user_roles' = user_roles
          /\ role_permissions' = role_permissions
          /\ now' = now
       \/ ~ReadCall]_vars

(* hasPermission has answered while the store holds a grant whose expiresAt
   has passed: the grant's row still has isActive = true. *)
C19_Witness ==
    /\ resp.outcome = "checked"
    /\ \E ur \in Rows(user_roles) :
          ur.is_active /\ ur.expires_at # NoExpiry /\ ur.expires_at <= now
    /\ role_permissions # EmptyBag

(* C20: for a userId that no row of the users table has,
   resolveEffectivePermissions gives the empty set and decide denies, without
   a fault, for every resource, action and orgContext. *)
C20_UnknownUserHasNothing ==
    /\ UnknownUser \notin DOMAIN users
    /\ get_user_permissions(DB, UnknownUser, now) = {}
    /\ \A pair \in PairsOf(Rows(permissions)), org \in OrgArgs :
          /\ decide(UnknownUser, pair[1], pair[2], org).outcome = "deny"
          /\ ~check_permission(DB, UnknownUser, pair[1], pair[2], org, now)

(* A user of the store is allowed a permission that the unknown user is
   denied with the same arguments, and the last call, a listing, gave the
   empty set. *)
C20_Witness ==
    /\ resp = Listed({})
    /\ \E u \in UserIds, pair \in QueryPairs, org \in OrgArgs :
          /\ decide(u, pair[1], pair[2], org) = Allow
          /\ decide(UnknownUser, pair[1], pair[2], org)
                = Forbidden(<<pair[1] \o "." \o pair[2]>>)

(* A step of createRole, createPermission, attachPermission, detachPermission
   or revokeRole while the store fails *)
FailedSpecCall ==
    \/ \E row \in PermInputs : CreatePermission(row, FALSE)
    \/ \E name \in RoleNames : CreateRole(name, "o1", FALSE, FALSE)
    \/ \E r \in RoleIdsOf(DB), p \in AttachPerms :
          AttachPermission(r, p, FALSE) \/ DetachPermission(r, p, FALSE)
    \/ \E u \in UserIds, r \in RoleIdsOf(DB) : RevokeRole(u, r, FALSE)

(* C21 as stated: when the store fails at any point during an administration
   operation, the tables are exactly as they were before the call: no step
   that changes a table is a step of a call that fails on the store. *)
C21_FailedAdministrationChangesNothing ==
    [][\/ storeVars' = storeVars
       \/ /\ ~FailedSpecCall
          /\ \A k \in FailurePoints, applied \in BOOLEAN :
                ~SeedPermissionsInterrupted(k, applied)
          /\ \A u \in UserIds, r \in RoleIdsOf(DB), by \in Assigners,
                fault \in StoreFaults :
                ~AssignRoleFailing(u, r, by, NoExpiry, fault)]_vars

(* C21: administration operations are all-or-nothing: when the store fails at
   any point during createRole, createPermission, attachPermission,
   detachPermission, grantRole, revokeRole or seedDefaultCatalog, the tables
   are exactly as they were before the call or, when the store failed after
   it had applied the commit, hold the whole effect of the call; rows of a
   part of the call are never in a table. *)
C21_FailedAdministrationAllOrNothing ==
    [][\/ storeVars' = storeVars
       \/ /\ ~FailedSpecCall
          /\ \A k \in FailurePoints, applied \in BOOLEAN :
                SeedPermissionsInterrupted(k, applied)
                   => /\ k = Len(DEFAULT_PERMISSIONS) + 1
                      /\ applied
                      /\ seed_permissions(DB, TRUE).ok
                      /\ permissions' = seed_permissions(DB, TRUE).permissions
          /\ \A u \in UserIds, r \in RoleIdsOf(DB), by \in Assigners,
                fault \in StoreFaults :
                AssignRoleFailing(u, r, by, NoExpiry, fault)
                   => /\ fault = "acknowledgement"
                      /\ assign_role(DB, u, r, by, NoExpiry, now, TRUE).ok
                      /\ user_roles' =
                            assign_role(DB, u, r, by, NoExpiry, now,
                                        TRUE).user_roles]_vars

(* A seeding has failed and no call of the seeding has succeeded, yet the
   table holds the whole catalog next to a permission created under a name of
   its own: the store had applied the commit of a seeding whose
   acknowledgement was lost.  A grant is in user_roles as well. *)
C21_Witness ==
    /\ resp = Raised("OperationalError")
    /\ PermissionRow("audit.read", "audit", "read") \in Rows(permissions)
    /\ \A i \in 1..Len(DEFAULT_PERMISSIONS) :
          DEFAULT_PERMISSIONS[i] \in Rows(permissions)
    /\ user_roles # EmptyBag

(* What the store alone gives a gate call: an exception when it cannot be
   reached, else allow or the 403 of the missing permission, by
   check_permission on the five tables at the clock's time *)
decision_of_store(u, pair, org, up) ==
    IF ~up THEN Raised("OperationalError")
    ELSE IF check_permission(DB, u, pair[1], pair[2], org, now)
    THEN Allow
    ELSE Forbidden(<<perm_string(pair[1], pair[2])>>)

(* C22: the result and reason of a decide call are a function of the store
   state the call reads: every gate call returns what the tables and the
   clock alone give; a step that leaves the tables and the clock as they are,
   such as a failing, retried or duplicated audit write or a hand-over that
   fills the queue, changes the decision of no call; and no response reports
   an audit failure to the caller. *)
C22_DecisionIndependentOfAudit ==
    [][/\ \A u \in UserIds, pair \in QueryPairs, org \in OrgArgs,
            up \in BOOLEAN :
             RequirePermission(u, pair, org, up)
                => resp' = decision_of_store(u, pair, org, up)
       /\ (storeVars' = storeVars /\ now' = now) =>
             \A u \in UserIds, pair \in QueryPairs, org \in OrgArgs,
                up \in BOOLEAN :
                 (require_permission(DB, u, pair[1], pair[2], org, now, up))'
                     = require_permission(DB, u, pair[1], pair[2], org, now, up)
       /\ resp'.outcome \in {"none", "allow", "deny"}
             \/ resp' = Raised("OperationalError")]_vars

(* The last decide call allowed, as the store alone gives for some call,
   while an audit write had failed and was being retried, a duplicate of a
   record was in audit_logs and the queue was full. *)
C22_Witness ==
    /\ resp = Allow
    /\ \E u \in UserIds, pair \in QueryPairs, org \in OrgArgs :
          decision_of_store(u, pair, org, TRUE) = Allow
    /\ attempts > 0
    /\ Len(auditQueue) = QueueCapacity
    /\ \E i, j \in 1..Len(audit_logs) : i # j /\ audit_logs[i] = audit_logs[j]

(* C23: the response surfaced on a denied call is the same for every missing
   permission: two denied requests of a user that differ only in the
   (resource, action) asked for, or in the list of pairs asked for, get
   indistinguishable responses. *)
C23_DeniedResponsesIndistinguishable ==
    /\ \A u \in UserIds, org \in OrgArgs, p1, p2 \in QueryPairs :
          (/\ decide(u, p1[1], p1[2], org).outcome = "deny"
           /\ decide(u, p2[1], p2[2], org).outcome = "deny")
          => decide(u, p1[1], p1[2], org) = decide(u, p2[1], p2[2], org)
    /\ \A u \in UserIds, org \in OrgArgs, l1, l2 \in PermLists :
          (/\ decideAny(u, l1, org).outcome = "deny"
           /\ decideAny(u, l2, org).outcome = "deny")
          => decideAny(u, l1, org) = decideAny(u, l2, org)

(* decide allows the caller the admin permission of a grant: system.admin, or
   resource "user_role" with the operation's name as the action *)
MayGrantRoles(by) ==
    \E org \in OrgArgs :
        \/ decide(by, "system", "admin", org).outcome = "allow"
        \/ decide(by, "user_role", "grantRole", org).outcome = "allow"

(* C24: an administration operation invoked by a caller for whom decide denies
   the operation's admin permission fails and leaves the grants as they were,
   so that a user without admin rights changes no user's effective
   permissions: here for grantRole. *)
C24_AdministrationIsAuthorized ==
    \A u \in UserIds, r \in RoleIdsOf(DB), by \in Assigners, exp \in Expiries :
        ~MayGrantRoles(by) =>
            LET granted == assign_role(DB, u, r, by, exp, now, TRUE)
                db1 == WithUserRoles(DB, granted.user_roles)
            IN  /\ ~granted.ok
                /\ granted.user_roles = user_roles
                /\ get_user_permissions(db1, u, now)
                      = get_user_permissions(DB, u, now)

(* The store in which the grant of role r to u has been revoked *)
AfterRevoke(u, r) == WithUserRoles(DB, revokeRole(DB, u, r, TRUE).user_roles)

(* C25: a grant is effective iff isActive is true and expiresAt is null or
   strictly later than the current time, a grant with expiresAt equal to now
   not being effective: an active user has a permission iff a grant that
   reaches it is so; the passing of time changes no stored row; and an
   expired grant, still an isActive = true row, is treated by hasPermission
   and resolveEffectivePermissions exactly like a revoked one. *)
C25_ExpiryIsLazyAndStrict ==
    /\ [](/\ \A u \in UserIds, p \in LinkedPermissions :
                users[u].is_active =>
                   (check_permission(DB, u, p.resource, p.action, NULL, now)
                      <=> \E ur \in GrantsReaching(u, p.resource, p.action) :
                             /\ ur.is_active
                             /\ (ur.expires_at = NoExpiry \/ ur.expires_at > now))
          /\ \A u \in UserIds : \A ur \in GrantsOf(u) :
                (ur.is_active /\ ur.expires_at # NoExpiry /\ ur.expires_at <= now)
                => /\ get_user_permissions(AfterRevoke(u, ur.role_id), u, now)
                         = get_user_permissions(DB, u, now)
                   /\ \A pair \in QueryPairs, org \in OrgArgs :
                         check_permission(AfterRevoke(u, ur.role_id), u,
                                          pair[1], pair[2], org, now)
                            = check_permission(DB, u, pair[1], pair[2], org, now))
    /\ [][now' # now => storeVars' = storeVars]_vars

(* The clock stands at the expiresAt of an isActive = true grant of an active
   user: the role's permission is attached, hasPermission is false for it and
   the Resolver's output is empty. *)
C25_Witness ==
    \E u \in UserIds : \E ur \in GrantsOf(u) : \E p \in Attached(ur.role_id) :
        /\ users[u].is_active
        /\ ur.is_active /\ ur.expires_at = now
        /\ ~check_permission(DB, u, p.resource, p.action, NULL, now)
        /\ get_user_permissions(DB, u, now) = {}

(* hasPermission(U, resource, action, orgContext) on a reachable store *)
hasPermission(u, resource, action, org) ==
    check_permission(DB, u, resource, action, org, now)

(* A permission of the system role "Regular User" and a permission that only
   the scoped role "Organization Admin" carries *)
CrossOrgPairs == {<<"knowledge_base", "read">>, <<"knowledge_base", "delete">>}

(* The role of id role_id carries (resource, action) *)
Carries(role_id, pair) ==
    \E rp \in Rows(role_permissions) :
        /\ rp.role_id = role_id
        /\ \E p \in Rows(permissions) :
              p.name = rp.permission_id /\ p.resource = pair[1] /\ p.action = pair[2]

(* C26 as stated: hasPermission(U, resource, action, orgContext) with
   orgContext different from U's organization succeeds whenever U, an active
   user, holds (resource, action) through some effective role and any
   effective role of U has isSystemRole = true, even when the system role is
   not the role that carries the permission. *)
C26_AnySystemRoleLiftsScoping ==
    \A u \in UserIds, pair \in CrossOrgPairs :
        \A org \in OrgIds \ {users[u].organization_id} :
            (/\ users[u].is_active
             /\ \E ur \in GrantsOf(u) : Effective(ur) /\ Carries(ur.role_id, pair)
             /\ \E ur \in GrantsOf(u) :
                   Effective(ur) /\ RoleOf(ur).is_system_role)
            => hasPermission(u, pair[1], pair[2], org)

(* C26 amended: hasPermission(U, resource, action, orgContext) with orgContext
   different from U's organization succeeds if and only if U is active and
   holds (resource, action) through an effective role that itself has
   isSystemRole = true; a system role that does not carry the permission
   lifts no scoping. *)
C26_SystemRoleLiftsItsOwnPermissions ==
    \A u \in UserIds, pair \in CrossOrgPairs :
        \A org \in OrgIds \ {users[u].organization_id} :
            hasPermission(u, pair[1], pair[2], org)
               <=> /\ users[u].is_active
                   /\ \E ur \in GrantsOf(u) :
                         /\ Effective(ur)
                         /\ RoleOf(ur).is_system_role
                         /\ Carries(ur.role_id, pair)

(* An active user holds an effective system role and an effective scoped
   role: in another organization hasPermission succeeds for a permission of
   the system role and fails for a permission that the scoped role alone
   carries. *)
C26_Witness ==
    \E u \in UserIds : \E g1, g2 \in GrantsOf(u) :
        \E p \in Attached(g1.role_id), q \in Attached(g2.role_id) \ Attached(g1.role_id) :
        \E org \in OrgIds \ {users[u].organization_id} :
            /\ users[u].is_active
            /\ Effective(g1) /\ RoleOf(g1).is_system_role
            /\ Effective(g2) /\ ~RoleOf(g2).is_system_role
            /\ hasPermission(u, p.resource, p.action, org)
            /\ ~hasPermission(u, q.resource, q.action, org)

(* C27: a user whose isActive flag is false is denied every decide call and
   has the empty effective permission set, whatever grants the user holds,
   grants of system roles included. *)
C27_InactiveUserHasNothing ==
    \A u \in UserIds :
        ~users[u].is_active =>
            /\ get_user_permissions(DB, u, now) = {}
            /\ \A pair \in QueryPairs, org \in OrgArgs :
                  /\ ~check_permission(DB, u, pair[1], pair[2], org, now)
                  /\ require_permission(DB, u, pair[1], pair[2], org, now, TRUE)
                        = Forbidden(<<perm_string(pair[1], pair[2])>>)
            /\ \A perms \in PermLists, org \in OrgArgs :
                  require_any_permission(DB, u, perms, org, now, TRUE).outcome = "deny"

(* An inactive user holds an effective grant of a system role that carries a
   permission, and the last call, a listing, gave the empty set. *)
C27_Witness ==
    /\ resp = Listed({})
    /\ \E u \in UserIds : \E ur \in GrantsOf(u) : \E p \in Attached(ur.role_id) :
          /\ ~users[u].is_active
          /\ Effective(ur)
          /\ RoleOf(ur).is_system_role
          /\ ~check_permission(DB, u, p.resource, p.action, NULL, now)

(* The grant rows of the pair (u, r) in a user_roles table *)
RowsOfPair(tbl, u, r) == {x \in Rows(tbl) : x.user_id = u /\ x.role_id = r}

(* C28: revokeRole never deletes the UserRoleGrant row: it only sets isActive
   to false and leaves assignedBy, assignedAt, expiresAt and every other row
   as they were; it is idempotent, so revoking a pair already revoked or never
   granted succeeds and changes nothing. *)
C28_RevokeKeepsTheRow ==
    \A u \in UserIds, r \in RoleIdsOf(DB) :
        LET res   == revokeRole(DB, u, r, TRUE)
            again == revokeRole(WithUserRoles(DB, res.user_roles), u, r, TRUE)
        IN  /\ res.ok
            /\ \A x \in Rows(user_roles) :
                  IF x.user_id = u /\ x.role_id = r
                  THEN /\ [x EXCEPT !.is_active = FALSE] \in Rows(res.user_roles)
                       /\ CopiesIn([x EXCEPT !.is_active = FALSE], res.user_roles)
                             >= CopiesIn(x, user_roles)
                  ELSE CopiesIn(x, res.user_roles) = CopiesIn(x, user_roles)
            /\ BagCardinality(res.user_roles) = BagCardinality(user_roles)
            /\ \A y \in RowsOfPair(res.user_roles, u, r) : ~y.is_active
            /\ (\A x \in RowsOfPair(user_roles, u, r) : ~x.is_active)
                  => res.user_roles = user_roles
            /\ again.ok
            /\ again.user_roles = res.user_roles

(* A grant made with an expiry stands revoked, its assignedBy, assignedAt and
   expiresAt still on the row, next to a grant that is still active. *)
C28_Witness ==
    \E x, y \in Rows(user_roles) :
        /\ ~x.is_active
        /\ x.expires_at # NoExpiry
        /\ x.assigned_by \in Assigners
        /\ y.is_active
        /\ revokeRole(DB, x.user_id, x.role_id, TRUE).user_roles = user_roles
        /\ revokeRole(DB, y.user_id, y.role_id, TRUE).user_roles # user_roles

(* C29: once a revokeRole(U, R) or detachPermission call has returned, every
   decide call for U that starts afterwards, and before any later grant or
   link gives the permission back, denies the permissions U held only through
   that grant or link, whatever calls and writes run concurrently. *)
C29_NoStaleAllow ==
    \A c \in Clients :
        (/\ calls[c].pc \in {"queried", "returned"}
         /\ calls[c].kind = "check"
         /\ calls[c].must_deny)
        => ~calls[c].result

(* A revocation has returned between two calls for the same permission: the
   call started before it returned allow, the call started after it returned
   deny. *)
C29_Witness ==
    \E c, d \in Clients :
        /\ calls[c].pc = "returned" /\ calls[c].kind = "check"
        /\ calls[d].pc = "returned" /\ calls[d].kind = "check"
        /\ calls[c].user_id = calls[d].user_id
        /\ calls[c].pair = calls[d].pair
        /\ <<calls[c].user_id, calls[c].pair>> \in barred
        /\ ~calls[c].must_deny /\ calls[c].result
        /\ calls[d].must_deny /\ ~calls[d].result
        /\ resp = Forbidden(<<perm_string(calls[d].pair[1], calls[d].pair[2])>>)

(* C30: under any interleaving of resolveEffectivePermissions / hasPermission
   with concurrent administration writes, the value returned is the value the
   operation gives on one single store state that existed between the call's
   start and its return. *)
C30_SnapshotConsistency ==
    \A c \in Clients :
        calls[c].pc \in {"queried", "returned"}
        => calls[c].result \in calls[c].could

(* A listing and an existence check have both returned after administration
   writes changed, during the call, what each would return. *)
C30_Witness ==
    \E c, d \in Clients :
        /\ calls[c].pc = "returned" /\ calls[c].kind = "list"
        /\ Cardinality(calls[c].could) >= 2
        /\ calls[d].pc = "returned" /\ calls[d].kind = "check"
        /\ Cardinality(calls[d].could) = 2

(* C31: concurrent decide calls, for the same or for different users, never
   block one another: whatever the other calls and the audit recorder are
   doing, a client without a call can start one for any user, a started call
   can run its query and a call that has its result can return. *)
C31_DecideCallsNeverBlock ==
    \A c \in Clients :
        /\ calls[c].pc = "idle"
              => \A u \in UserIds, pair \in QueryPairs :
                    ENABLED StartCheck(c, u, pair)
        /\ calls[c].pc = "started" => ENABLED QueryCall(c)
        /\ calls[c].pc = "queried" => ENABLED ReturnCall(c)

(* Two calls for different users are in progress, one of them between its
   query and its return and the other about to run its query; the audit
   queue is full, its producer is blocked and a flush has failed. *)
C31_Witness ==
    \E c, d \in Clients :
        /\ calls[c].pc = "started" /\ calls[d].pc = "queried"
        /\ calls[c].user_id # calls[d].user_id
        /\ ENABLED QueryCall(c)
        /\ ENABLED ReturnCall(d)
        /\ Len(auditQueue) = QueueCapacity
        /\ \E p \in Producers : pending[p] # NoRecord /\ ~ENABLED Enqueue(p)
        /\ attempts > 0

(* Every record a producer can submit *)
AllRecords == {AuditRecord(p, n) : p \in Producers, n \in 1..MaxRecords}

(* C32: no audit record is lost: with a flusher that keeps attempting and a
   store that is eventually reachable, every AuditRecord placed in the queue
   is eventually written to audit_logs, at least once, across any sequence of
   failed writes and retries. *)
C32_NoAuditRecordLost ==
    \A rec \in AllRecords :
        (rec \in RangeOf(auditQueue)) ~> (rec \in RangeOf(audit_logs))

(* Every submitted record is in audit_logs, one of them twice after a retry,
   and the queue is empty. *)
C32_Witness ==
    /\ auditQueue = <<>>
    /\ Cardinality(submitted) > 2
    /\ \A rec \in submitted : rec \in RangeOf(audit_logs)
    /\ \E i, j \in 1..Len(audit_logs) : i < j /\ audit_logs[i] = audit_logs[j]

(* C33: per-user audit ordering: of two records of the same user, the earlier
   one (its call returned before the later call started) is in audit_logs
   before the later one's first appearance, also when a flush fails and is
   retried; records of different users come in any order. *)
C33_PerUserAuditOrder ==
    \A i \in 1..Len(audit_logs) :
        \A n \in 1..(audit_logs[i].seq - 1) :
            \E j \in 1..(i - 1) :
                audit_logs[j] = AuditRecord(audit_logs[i].by, n)

(* A user's first record was written twice, by a retry, before the user's
   second record, and another user's first record comes after that second
   record. *)
C33_Witness ==
    \E p, q \in Producers : \E i, j, k, m \in 1..Len(audit_logs) :
        /\ p # q
        /\ i < j /\ j < k /\ k < m
        /\ audit_logs[i] = AuditRecord(p, 1)
        /\ audit_logs[j] = AuditRecord(p, 1)
        /\ audit_logs[k] = AuditRecord(p, 2)
        /\ audit_logs[m] = AuditRecord(q, 1)

(* C34: AuditRecords are append-only: no step of decide, of an administration
   operation, of seedDefaultCatalog or of the audit flush and its retries
   changes or removes a row of audit_logs; the table only grows at its end. *)
C34_AuditLogsAppendOnly ==
    [][/\ Len(audit_logs') >= Len(audit_logs)
       /\ SubSeq(audit_logs', 1, Len(audit_logs)) = audit_logs]_vars

(* Both records are in audit_logs, one of them twice after a retry, and since
   the first write a gate call has answered, administration has committed and
   a role was created. *)
C34_Witness ==
    /\ Len(audit_logs) > 2
    /\ auditQueue = <<>>
    /\ resp = Allow
    /\ nops > 2
    /\ BagCardinality(roles) > 1

(* C35: every successful administration operation emits exactly one
   AuditRecord of the mutation: a step that commits a change to the tables
   hands exactly one new record to the audit recorder, and a step that commits
   none hands it none. *)
C35_AdministrationEmitsOneAuditRecord ==
    [][IF storeVars' # storeVars
       THEN /\ submitted \subseteq submitted'
            /\ Cardinality(submitted') = Cardinality(submitted) + 1
       ELSE submitted' = submitted]_vars

(* C36: org scoping only restricts: if check_permission(U, resource, action,
   org) is true for some org, then check_permission(U, resource, action, null)
   is true and (resource, action) is in get_user_permissions(U); decide never
   allows a pair that listEffectivePermissions omits. *)
C36_OrgScopingOnlyRestricts ==
    \A u \in Callers, pair \in QueryPairs, org \in OrgArgs :
        /\ check_permission(DB, u, pair[1], pair[2], org, now)
              => /\ check_permission(DB, u, pair[1], pair[2], NULL, now)
                 /\ pair \in PairsOf(get_user_permissions(DB, u, now))
        /\ require_permission(DB, u, pair[1], pair[2], org, now, TRUE) = Allow
              => pair \in PairsOf(get_user_permissions(DB, u, now))

(* A user holds a listed permission that check_permission grants without an
   organization and in the user's own organization, and refuses in another
   organization. *)
C36_Witness ==
    \E u \in UserIds, pair \in QueryPairs, org \in OrgIds :
        /\ check_permission(DB, u, pair[1], pair[2], NULL, now)
        /\ check_permission(DB, u, pair[1], pair[2], users[u].organization_id, now)
        /\ ~check_permission(DB, u, pair[1], pair[2], org, now)
        /\ pair \in PairsOf(get_user_permissions(DB, u, now))
        /\ resp = Allow

(* seed_permissions has run: every row of DEFAULT_PERMISSIONS is in the table *)
Seeded ==
    \A i \in 1..Len(DEFAULT_PERMISSIONS) :
        DEFAULT_PERMISSIONS[i] \in Rows(permissions)

(* The permissions of the table that an attachment of the role hierarchy
   names, a wildcard action standing for every action of the resource *)
Expanded(x) ==
    {p \in Rows(permissions) :
        p.resource = x[1] /\ (x[2] = "*" \/ p.action = x[2])}

(* C37: catalog closure: after seedDefaultCatalog every permission named in
   the documented attachments of the five system roles, wildcards expanded
   over the catalog, is a row of the permissions table, and every documented
   attachment exists as a RolePermissionLink of the seeded role to an existing
   Permission row. *)
C37_CatalogClosure ==
    Seeded =>
        \A name \in DOMAIN ROLE_HIERARCHY : \A x \in ROLE_HIERARCHY[name] :
            /\ Expanded(x) # {}
            /\ \E r \in Rows(roles) :
                  /\ r.name = name
                  /\ \A p \in Expanded(x) :
                        RolePermissionRow(r.id, p.name) \in Rows(role_permissions)

(* C38: in HomeUpload the progress value shown to the user, the bar and the
   percentage rendered while uploading, is between 0 and 100 inclusive in
   every reachable state of handleUpload, however late the upload response
   comes relative to the 80 ms ticks. *)
C38_ProgressWithinBounds ==
    homeUpload.uploading
        => homeUpload.progress >= 0 /\ homeUpload.progress <= 100

(* C39: in HomeUpload every handleUpload that ends, on success, on a non-OK
   response or on a thrown error, ends with uploading false, a result message
   set and its interval timer cleared, so that no timer changes progress
   afterwards. *)
C39_UploadEndsCleanly ==
    [][\A i \in 1..Len(homeUpload.calls) :
          (homeUpload.calls[i] # "done" /\ homeUpload'.calls[i] = "done")
          => /\ ~homeUpload'.uploading
             /\ homeUpload'.message # MsgNone
             /\ ~homeUpload'.timers[i].running]_vars

(* C40: in OrgManager, whenever every handleCreate and handleDelete request
   sent after the list arrived has completed, in whatever order they
   overlapped, the displayed list holds exactly the fetched organizations
   plus the created ones minus the deleted ones; and a component whose
   isSystemAdmin is false shows nothing and has sent no list request. *)
C40_NoUpdateLost ==
    /\ (/\ orgManager.mounted
        /\ orgManager.isSystemAdmin
        /\ orgManager.list = "done"
        /\ ~orgManager.early
        /\ orgManager.requests = <<>>)
         => RangeOf(displayed(orgManager).orgs)
              = (RangeOf(orgManager.fetched) \cup orgManager.created)
                    \ orgManager.deleted
    /\ (orgManager.mounted /\ ~orgManager.isSystemAdmin)
         => ~displayed(orgManager).shown /\ orgManager.list = "none"

=============================================================================
